---- MODULE Spec2Model ----
(***************************************************************************)
(* LoafLogic: bread price comparison.                                      *)
(*                                                                         *)
(* Three parts of the repository are modelled.                             *)
(*                                                                         *)
(*  - The text parsers of the scrapers (_normalize_weight, _clean_price),  *)
(*    as operators over character sequences, exercised by SpecText, and    *)
(*    the analyser's _standardize_brand, exercised by SpecBrandText.       *)
(*  - The analysis pipeline of run_analysis.main (load_and_preprocess,     *)
(*    fuzzy_match_products, identify_best_deals, create_comparison_table), *)
(*    as one action per stage over tables (sequences of records),          *)
(*    exercised by Spec, SpecLoad (rows the loader drops), SpecGroup       *)
(*    (three keys, every score), SpecCatalogue (more keys than the         *)
(*    matcher's limit of 10 candidates), SpecBrand (names and brands that  *)
(*    tie in a group) and SpecOlderCsv (a file with rows of a platform     *)
(*    the table has no columns for).                                       *)
(*  - The scraping session of run_scrapers.main (three coroutines under    *)
(*    asyncio.gather, then the combined file and its conversion),          *)
(*    exercised by SpecScrape.                                             *)
(*                                                                         *)
(* Numbers.  A parsed float is kept as an exact decimal [m, f] standing    *)
(* for m * 10^-f.  In the pipeline, prices are integers in paise           *)
(* (hundredths of a rupee), weights are integers in grams, and             *)
(* price_per_100g is an integer in paise per 100 g (the CSV column is      *)
(* rounded to 2 decimals by convert_to_dataframe).                         *)
(***************************************************************************)
EXTENDS Integers, Sequences, FiniteSets, TLC

VARIABLES
    \* ---- text parsers ----
    text,              \* the argument handed to the parser (a string or None)
    out,               \* what the call produced: a returned number or a raise
    tpc,               \* "start" | "weight" | "price" | "brand": what has run
    \* ---- analysis pipeline ----
    csv,               \* rows of the CSV file read by load_and_preprocess
    score,             \* fuzz.token_sort_ratio over pairs of product keys
    df,                \* the table returned by load_and_preprocess
    df_matched,        \* the table returned by fuzzy_match_products
    deals_df,          \* the table returned by identify_best_deals
    insights,          \* the dict returned by generate_insights
    comparison_table,  \* the table returned by create_comparison_table
    pc,                \* position of run_analysis.main
    \* ---- scraping session ----
    tasks,             \* the three run_single_scraper coroutines, by platform
    all_platforms_data,\* run_scrapers.main: platform name -> its products
    platform_files,    \* the files save_platform_data wrote, by platform
    combined_file,     \* what save_combined_data returned
    combined_data,     \* what load_combined_data returned
    scraped_df,        \* what convert_to_dataframe returned
    mpc                \* position of run_scrapers.main

vars == <<text, out, tpc, csv, score, df, df_matched, deals_df, insights,
          comparison_table, pc, tasks, all_platforms_data, platform_files,
          combined_file, combined_data, scraped_df, mpc>>

textVars == <<text, out, tpc>>
pipeVars == <<csv, score, df, df_matched, deals_df, insights,
              comparison_table, pc>>
scrapeVars == <<tasks, all_platforms_data, platform_files, combined_file,
                combined_data, scraped_df, mpc>>

\* run_scrapers.main has not been started
ScrapeIdle ==
    /\ tasks = <<>>
    /\ all_platforms_data = <<>>
    /\ platform_files = <<>>
    /\ combined_file = "none"
    /\ combined_data = [none |-> TRUE]
    /\ scraped_df = <<>>
    /\ mpc = "idle"

----------------------------------------------------------------------------
(***************************************************************************)
(* Bounds                                                                  *)
(***************************************************************************)
\* longest text handed to a parser
MaxLen == 4

\* most products of one scraping session, all platforms together
MaxRows == 3

\* most rows of a CSV file that holds rows load_and_preprocess drops
MaxLoadRows == 2

\* most distinct product keys of a catalogue larger than the matcher's limit
MaxKeys == 12

\* most products one scraper extracts in a session
MaxScraped == 1

----------------------------------------------------------------------------
(***************************************************************************)
(* Strings: sequences of one-character strings.                            *)
(***************************************************************************)
\* "R" stands for the rupee sign U+20B9
Rupee == "R"

Digits == {"0", "1", "2", "3", "4", "5", "6", "7", "8", "9"}

Whitespace == {" "}

\* the characters texts are built from
Alphabet == {"1", "2", ".", ",", " ", "x", "k", "K", "g", Rupee}

\* Python's None passed where a string is expected
None == <<"<None>">>

DigitVal(c) ==
    CASE c = "0" -> 0 [] c = "1" -> 1 [] c = "2" -> 2 [] c = "3" -> 3
      [] c = "4" -> 4 [] c = "5" -> 5 [] c = "6" -> 6 [] c = "7" -> 7
      [] c = "8" -> 8 [] c = "9" -> 9

RECURSIVE Pow10(_)
Pow10(n) == IF n = 0 THEN 1 ELSE 10 * Pow10(n - 1)

\* str.lower()
LowerChar(c) == IF c = "K" THEN "k" ELSE c

Lower(s) == [i \in 1..Len(s) |-> LowerChar(s[i])]

\* str.replace(c, '')
RemoveChar(s, c) == SelectSeq(s, LAMBDA ch : ch # c)

RECURSIVE LStrip(_)
LStrip(s) ==
    IF s # <<>> /\ Head(s) \in Whitespace THEN LStrip(Tail(s)) ELSE s

RECURSIVE RStrip(_)
RStrip(s) ==
    IF s # <<>> /\ s[Len(s)] \in Whitespace
    THEN RStrip(SubSeq(s, 1, Len(s) - 1))
    ELSE s

\* str.strip()
Strip(s) == RStrip(LStrip(s))

\* sub in s
Contains(s, sub) ==
    \E i \in 1..(Len(s) - Len(sub) + 1) : SubSeq(s, i, i + Len(sub) - 1) = sub

\* length of the longest run of characters of S that starts at position i
RECURSIVE RunLen(_, _, _)
RunLen(s, i, S) ==
    IF i > Len(s) \/ s[i] \notin S THEN 0 ELSE 1 + RunLen(s, i + 1, S)

\* re.findall(r'[S]+', s) from position i on
RECURSIVE FindAllFrom(_, _, _)
FindAllFrom(s, i, S) ==
    IF i > Len(s) THEN <<>>
    ELSE IF s[i] \in S
         THEN LET n == RunLen(s, i, S)
              IN  <<SubSeq(s, i, i + n - 1)>> \o FindAllFrom(s, i + n, S)
         ELSE FindAllFrom(s, i + 1, S)

FindAll(s, S) == FindAllFrom(s, 1, S)

----------------------------------------------------------------------------
(***************************************************************************)
(* Python values of a call: a returned float, or a raised exception.       *)
(***************************************************************************)
Raised == [exc |-> TRUE, m |-> 0, f |-> 0]

Num(m, f) == [exc |-> FALSE, m |-> m, f |-> f]

\* the float 0.0
Zero == Num(0, 0)

\* equality of two returned floats
NumEq(a, b) ==
    /\ ~a.exc
    /\ ~b.exc
    /\ a.m * Pow10(b.f) = b.m * Pow10(a.f)

RECURSIVE DigitsToInt(_)
DigitsToInt(ds) ==
    IF ds = <<>> THEN 0
    ELSE 10 * DigitsToInt(SubSeq(ds, 1, Len(ds) - 1)) + DigitVal(ds[Len(ds)])

\* position of the first "." of tok, 0 when there is none
RECURSIVE DotPos(_, _)
DotPos(tok, i) ==
    IF i > Len(tok) THEN 0 ELSE IF tok[i] = "." THEN i ELSE DotPos(tok, i + 1)

\* float(tok) for a token of digits, dots and nothing else: ValueError unless
\* the token has one dot at most and a digit
Float(tok) ==
    LET digs == SelectSeq(tok, LAMBDA ch : ch \in Digits)
        dots == Len(SelectSeq(tok, LAMBDA ch : ch = "."))
        p    == DotPos(tok, 1)
    IN  IF \/ Len(digs) = 0
           \/ dots > 1
           \/ Len(digs) + dots # Len(tok)
        THEN Raised
        ELSE Num(DigitsToInt(digs), IF p = 0 THEN 0 ELSE Len(tok) - p)

\* a * b on floats; an exception in either operand propagates
Mul(a, b) ==
    IF a.exc \/ b.exc THEN Raised ELSE Num(a.m * b.m, a.f + b.f)

\* round(x, 2): nearest multiple of 0.01, ties to even
Round2(x) ==
    IF x.exc THEN Raised
    ELSE IF x.f <= 2 THEN Num(x.m * Pow10(2 - x.f), 2)
    ELSE LET d == Pow10(x.f - 2)
             q == x.m \div d
             r == x.m % d
         IN  Num(IF 2 * r > d \/ (2 * r = d /\ q % 2 = 1) THEN q + 1 ELSE q, 2)

----------------------------------------------------------------------------
(***************************************************************************)
(* The scrapers' text parsers.  BlinkitScraper, ZeptoScraper and           *)
(* BbnowScraper carry the same two methods, statement for statement.       *)
(***************************************************************************)
\* the characters of the pattern [\d.]
NumChars == Digits \cup {"."}

\* the characters of the pattern [\d.,]
PriceChars == Digits \cup {".", ","}

\* unit = 'g' if 'g' in text else ('kg' if 'kg' in text else
\*        ('ml' if 'ml' in text else ''))
DetectUnit(t) ==
    IF Contains(t, <<"g">>) THEN "g"
    ELSE IF Contains(t, <<"k", "g">>) THEN "kg"
    ELSE IF Contains(t, <<"m", "l">>) THEN "ml"
    ELSE ""

\* the statements of _normalize_weight inside its try block
NormalizeWeightTry(weight_text) ==
    IF weight_text = None THEN Raised      \* None.lower(): AttributeError
    ELSE
    LET t    == Strip(RemoveChar(Lower(weight_text), ","))
        nums == FindAll(t, NumChars)
        unit == DetectUnit(t)
    IN  IF nums = <<>> THEN Zero
        ELSE LET total == IF Contains(t, <<"x">>) /\ Len(nums) >= 2
                          THEN Mul(Float(nums[1]), Float(nums[2]))
                          ELSE Float(nums[Len(nums)])
                 conv  == IF unit = "kg" THEN Mul(total, Num(1000, 0))
                          ELSE total
             IN  Round2(conv)

\* the handler left out: the exception reaches the caller
ExceptPropagates(r) == r

\* try: ... except Exception: return 0.0
ExceptReturnZero(r) == IF r.exc THEN Zero ELSE r

normalize_weight(weight_text) == ExceptReturnZero(NormalizeWeightTry(weight_text))

\* re.search(r'R\s*([\d.,]+)', s) from position i on: the captured group of
\* the leftmost match, <<>> when nothing matches (a group is never empty)
RECURSIVE SearchPriceFrom(_, _)
SearchPriceFrom(s, i) ==
    IF i > Len(s) THEN <<>>
    ELSE IF s[i] = Rupee
         THEN LET j == i + 1 + RunLen(s, i + 1, Whitespace)
                  n == RunLen(s, j, PriceChars)
              IN  IF n > 0 THEN SubSeq(s, j, j + n - 1)
                  ELSE SearchPriceFrom(s, i + 1)
         ELSE SearchPriceFrom(s, i + 1)

\* the captured group of the rightmost match instead of the leftmost
SearchPriceLast(s) ==
    LET starts == {i \in 1..Len(s) :
                      /\ s[i] = Rupee
                      /\ RunLen(s, i + 1 + RunLen(s, i + 1, Whitespace), PriceChars) > 0}
    IN  IF starts = {} THEN <<>>
        ELSE SearchPriceFrom(s, CHOOSE i \in starts : \A k \in starts : k <= i)

SearchPrice(s) == SearchPriceFrom(s, 1)

\* the statements of _clean_price inside its try block
CleanPriceTry(price_text) ==
    IF price_text = None THEN Raised       \* re.search(pattern, None): TypeError
    ELSE LET g == SearchPrice(price_text)
         IN  IF g # <<>> THEN Float(RemoveChar(g, ",")) ELSE Zero

clean_price(price_text) == ExceptReturnZero(CleanPriceTry(price_text))

----------------------------------------------------------------------------
(***************************************************************************)
(* SpecText: one call of a parser on every text up to MaxLen characters    *)
(* and on None.                                                            *)
(***************************************************************************)
RECURSIVE SeqsUpTo(_, _)
SeqsUpTo(S, n) ==
    IF n = 0 THEN {<<>>}
    ELSE LET shorter == SeqsUpTo(S, n - 1)
         IN  shorter \cup {Append(s, c) : s \in {x \in shorter : Len(x) = n - 1}, c \in S}

Texts == SeqsUpTo(Alphabet, MaxLen) \cup {None}

InitText ==
    /\ text \in Texts
    /\ out = Zero
    /\ tpc = "start"
    /\ csv = <<>>
    /\ score = <<>>
    /\ df = <<>>
    /\ df_matched = <<>>
    /\ deals_df = <<>>
    /\ insights = <<>>
    /\ comparison_table = <<>>
    /\ pc = "idle"
    /\ ScrapeIdle

\* weight = self._normalize_weight(weight)
CallNormalizeWeight ==
    /\ tpc = "start"
    /\ out' = normalize_weight(text)
    /\ tpc' = "weight"
    /\ UNCHANGED <<text, pipeVars, scrapeVars>>

\* price = self._clean_price(price_text)
CallCleanPrice ==
    /\ tpc = "start"
    /\ out' = clean_price(text)
    /\ tpc' = "price"
    /\ UNCHANGED <<text, pipeVars, scrapeVars>>

NextText == CallNormalizeWeight \/ CallCleanPrice

SpecText == InitText /\ [][NextText]_vars

----------------------------------------------------------------------------
(***************************************************************************)
(* DataAnalyser._standardize_brand over character sequences, exercised by  *)
(* SpecBrandText: one call on every brand text of BrandTexts.              *)
(***************************************************************************)
LowerLetters ==
    <<"a", "b", "c", "d", "e", "f", "g", "h", "i", "j", "k", "l",
      "m", "n", "o", "p", "q", "r", "s", "t", "u", "v", "w", "x",
      "y", "z">>

UpperLetters ==
    <<"A", "B", "C", "D", "E", "F", "G", "H", "I", "J", "K", "L",
      "M", "N", "O", "P", "Q", "R", "S", "T", "U", "V", "W", "X",
      "Y", "Z">>

IsLetter(c) == \E i \in 1..26 : LowerLetters[i] = c \/ UpperLetters[i] = c

\* str.upper() of one character
ToUpper(c) ==
    IF \E i \in 1..26 : LowerLetters[i] = c
    THEN UpperLetters[CHOOSE i \in 1..26 : LowerLetters[i] = c]
    ELSE c

\* str.lower() of one character
ToLower(c) ==
    IF \E i \in 1..26 : UpperLetters[i] = c
    THEN LowerLetters[CHOOSE i \in 1..26 : UpperLetters[i] = c]
    ELSE c

\* str.upper()
UpperText(s) == [i \in 1..Len(s) |-> ToUpper(s[i])]

\* str.lower()
LowerText(s) == [i \in 1..Len(s) |-> ToLower(s[i])]

\* str.title(): a letter that follows a letter in lower case, every other
\* letter in upper case
TitleText(s) ==
    [i \in 1..Len(s) |->
        IF i > 1 /\ IsLetter(s[i - 1]) THEN ToLower(s[i]) ELSE ToUpper(s[i])]

\* the string "Unknown"
UnknownText == <<"U", "n", "k", "n", "o", "w", "n">>

\* brand_mappings: the keys with their values, in the order of the dict
BrandMappings ==
    <<
        <<<<"B", "R", "I", "T", "A", "N", "N", "I", "A">>,
          <<"B", "r", "i", "t", "a", "n", "n", "i", "a">>>>,
        <<<<"M", "O", "D", "E", "R", "N">>,
          <<"M", "o", "d", "e", "r", "n">>>>,
        <<<<"H", "A", "R", "V", "E", "S", "T", " ", "G", "O", "L",
            "D">>,
          <<"H", "a", "r", "v", "e", "s", "t", " ", "G", "o", "l",
            "d">>>>,
        <<<<"E", "N", "G", "L", "I", "S", "H", " ", "O", "V", "E",
            "N">>,
          <<"E", "n", "g", "l", "i", "s", "h", " ", "O", "v", "e",
            "n">>>>,
        <<<<"T", "H", "E", " ", "H", "E", "A", "L", "T", "H", " ",
            "F", "A", "C", "T", "O", "R", "Y">>,
          <<"T", "h", "e", " ", "H", "e", "a", "l", "t", "h", " ",
            "F", "a", "c", "t", "o", "r", "y">>>>,
        <<<<"B", "R", "I", "T", "T", "A", "N", "I", "A">>,
          <<"B", "r", "i", "t", "a", "n", "n", "i", "a">>>>,
        <<<<"W", "I", "B", "s">>,
          <<"W", "i", "b", "s">>>>,
        <<<<"B", "O", "N", "N">>,
          <<"B", "o", "n", "n">>>>,
        <<<<"F", "R", "E", "S", "H">>,
          <<"F", "r", "e", "s", "h">>>>,
        <<<<"D", "A", "I", "L", "Y">>,
          <<"D", "a", "i", "l", "y">>>>
    >>

\* brand_mappings.get(brand, brand.title())
BrandMappingsGet(brand) ==
    IF \E e \in 1..Len(BrandMappings) : BrandMappings[e][1] = brand
    THEN BrandMappings[CHOOSE e \in 1..Len(BrandMappings) :
                          BrandMappings[e][1] = brand][2]
    ELSE TitleText(brand)

\* _standardize_brand(brand); None stands for a missing value (pd.isna)
StandardizeBrandText(brand) ==
    IF brand = None \/ brand = UnknownText THEN UnknownText
    ELSE BrandMappingsGet(Strip(UpperText(brand)))

\* the characters of the short brand texts
BrandAlphabet == {" ", "b", "B", "-"}

\* a brand as a page may spell it: as it is, in lower case, in upper case,
\* in title case, and each with a blank before or after it
Spellings(name) ==
    LET cased == {name, LowerText(name), UpperText(name), TitleText(name)}
    IN  cased \cup {<<" ">> \o c : c \in cased} \cup {c \o <<" ">> : c \in cased}

\* a brand that brand_mappings does not know
OtherBrand == <<"m", "o", "t", "h", "e", "r", "'", "s", " ", "o", "v", "e", "n">>

\* the brand texts: every text up to MaxLen characters of BrandAlphabet, a
\* missing value, and the spellings of the brands of brand_mappings, of
\* "Unknown" and of a brand the table does not know
BrandTexts ==
    SeqsUpTo(BrandAlphabet, MaxLen) \cup {None}
      \cup UNION {Spellings(BrandMappings[e][1]) : e \in 1..Len(BrandMappings)}
      \cup Spellings(UnknownText) \cup Spellings(OtherBrand)

InitBrandText ==
    /\ text \in BrandTexts
    /\ out = Zero
    /\ tpc = "start"
    /\ csv = <<>>
    /\ score = <<>>
    /\ df = <<>>
    /\ df_matched = <<>>
    /\ deals_df = <<>>
    /\ insights = <<>>
    /\ comparison_table = <<>>
    /\ pc = "idle"
    /\ ScrapeIdle

\* df['brand_standardized'] = df['brand'].apply(self._standardize_brand),
\* for one brand
CallStandardizeBrand ==
    /\ tpc = "start"
    /\ out' = StandardizeBrandText(text)
    /\ tpc' = "brand"
    /\ UNCHANGED <<text, pipeVars, scrapeVars>>

NextBrandText == CallStandardizeBrand

SpecBrandText == InitBrandText /\ [][NextBrandText]_vars

----------------------------------------------------------------------------
(***************************************************************************)
(* Tables.  A DataFrame is a sequence of records (its rows, in order).     *)
(* A product name is a sequence of words; a product key is a sequence of   *)
(* words as well: the lower-cased brand followed by the cleaned name       *)
(* (f"{brand}_{name}").                                                    *)
(***************************************************************************)
\* NaN of a numeric column (a missing price)
NaN == 0 - 1

\* float('inf'), the quotient of a positive price by the weight 0.0
Inf == Pow10(9)

\* NaN of the name column
NaNName == <<"<NaN>">>

\* the three platforms of scrapers_config, in its order
Platforms == <<"blinkit", "zepto", "bbnow">>

\* the words names and keys are made of, in string order
WordOrder == <<"Bread", "Britannia", "Fresh", "Loaf", "Unknown", "bread",
               "britannia", "fresh", "loaf", "unknown",
               "| Clean Label - Not Brown">>

WordRank(w) == CHOOSE i \in 1..Len(WordOrder) : WordOrder[i] = w

\* a < b for two strings given as word sequences
RECURSIVE SeqLess(_, _)
SeqLess(a, b) ==
    IF b = <<>> THEN FALSE
    ELSE IF a = <<>> THEN TRUE
    ELSE IF Head(a) = Head(b) THEN SeqLess(Tail(a), Tail(b))
    ELSE WordRank(Head(a)) < WordRank(Head(b))

\* Series.unique(): the distinct values in order of first appearance
RECURSIVE Unique(_)
Unique(s) ==
    IF s = <<>> THEN <<>>
    ELSE LET u == Unique(SubSeq(s, 1, Len(s) - 1))
             x == s[Len(s)]
         IN  IF \E i \in 1..Len(u) : u[i] = x THEN u ELSE Append(u, x)

Column(t, c) == [i \in 1..Len(t) |-> t[i][c]]

\* Series.nunique()
NUnique(s) == Cardinality({s[i] : i \in 1..Len(s)})

Min(S) == CHOOSE x \in S : \A y \in S : x <= y

MaxOf(S) == CHOOSE x \in S : \A y \in S : y <= x

----------------------------------------------------------------------------
(***************************************************************************)
(* DataManager.convert_to_dataframe: the rows of the CSV file.             *)
(***************************************************************************)
\* n / d rounded to the nearest integer, ties to even (DataFrame.round)
RoundDiv(n, d) ==
    LET q == n \div d
        r == n % d
    IN  IF 2 * r > d \/ (2 * r = d /\ q % 2 = 1) THEN q + 1 ELSE q

\* the quotient without the factor 100
PricePerGram(price, weight) ==
    IF price = NaN THEN NaN
    ELSE IF weight = 0 THEN (IF price = 0 THEN NaN ELSE Inf)
    ELSE RoundDiv(price, weight)

\* df['price_per_100g'] = ((df['price'] / df['weight']) * 100).round(2)
PricePer100g(price, weight) ==
    IF price = NaN THEN NaN
    ELSE IF weight = 0 THEN (IF price = 0 THEN NaN ELSE Inf)
    ELSE RoundDiv(price * 100, weight)

\* one scraped product, as the scrapers' _extract_product_data returns it
Product(name, brand, weight, price) ==
    [name |-> name, brand |-> brand, weight |-> weight, price |-> price]

\* the rows of one platform: each product with its platform and price_per_100g
PlatformRows(products, platform_name) ==
    [i \in 1..Len(products) |->
        [name           |-> products[i].name,
         brand          |-> products[i].brand,
         weight         |-> products[i].weight,
         price          |-> products[i].price,
         platform       |-> platform_name,
         price_per_100g |-> PricePer100g(products[i].price, products[i].weight)]]

\* combined maps each platform name to its product list; the rows follow the
\* order of the platforms
convert_to_dataframe(combined) ==
    PlatformRows(combined[Platforms[1]], Platforms[1])
      \o PlatformRows(combined[Platforms[2]], Platforms[2])
      \o PlatformRows(combined[Platforms[3]], Platforms[3])

----------------------------------------------------------------------------
(***************************************************************************)
(* DataAnalyser.load_and_preprocess                                        *)
(***************************************************************************)
SuffixWord == "| Clean Label - Not Brown"

StopWords == {"atta", "sliced", "fresh", "premium"}

\* str.lower() of one word
LowerWord(w) ==
    CASE w = "Bread" -> "bread"
      [] w = "Fresh" -> "fresh"
      [] w = "Loaf"  -> "loaf"
      [] OTHER       -> w

\* str.upper().strip() of a brand
UpperStrip(b) ==
    CASE b = "Britannia"  -> "BRITANNIA"
      [] b = "Brittania"  -> "BRITTANIA"
      [] OTHER            -> b

\* str.title() of an upper-cased brand
Title(b) ==
    CASE b = "BRITANNIA" -> "Britannia"
      [] b = "BRITTANIA" -> "Brittania"
      [] OTHER           -> b

\* brand_mappings.get(brand, brand.title())
BrandMapping(b) ==
    CASE b = "BRITANNIA"          -> "Britannia"
      [] b = "MODERN"             -> "Modern"
      [] b = "HARVEST GOLD"       -> "Harvest Gold"
      [] b = "ENGLISH OVEN"       -> "English Oven"
      [] b = "THE HEALTH FACTORY" -> "The Health Factory"
      [] b = "BRITTANIA"          -> "Britannia"
      [] b = "WIBs"               -> "Wibs"
      [] b = "BONN"               -> "Bonn"
      [] b = "FRESH"              -> "Fresh"
      [] b = "DAILY"              -> "Daily"
      [] OTHER                    -> Title(b)

\* NaN of the brand column
NaNBrand == "<NaN>"

standardize_brand(brand) ==
    IF brand = NaNBrand \/ brand = "Unknown" THEN "Unknown"
    ELSE BrandMapping(UpperStrip(brand))

\* str.lower() of a brand_standardized value
LowerBrand(b) ==
    CASE b = "Britannia" -> "britannia"
      [] b = "Unknown"   -> "unknown"
      [] OTHER           -> b

\* re.sub(r'\b(whole wheat|atta|sliced|fresh|premium)\b', '', name), then the
\* whitespace normalised
RECURSIVE RemoveStopWords(_)
RemoveStopWords(ws) ==
    IF ws = <<>> THEN <<>>
    ELSE IF Len(ws) >= 2 /\ ws[1] = "whole" /\ ws[2] = "wheat"
         THEN RemoveStopWords(SubSeq(ws, 3, Len(ws)))
    ELSE IF Head(ws) \in StopWords THEN RemoveStopWords(Tail(ws))
    ELSE <<Head(ws)>> \o RemoveStopWords(Tail(ws))

create_product_key(row) ==
    LET name  == [i \in 1..Len(row.name) |-> LowerWord(row.name[i])]
        brand == LowerBrand(row.brand_standardized)
    IN  <<brand>> \o RemoveStopWords(name)

\* df["name"].str.replace(" | Clean Label - Not Brown", "").str.strip();
\* NaN stays NaN
CleanName(name) ==
    IF name = NaNName THEN NaNName
    ELSE SelectSeq(name, LAMBDA w : w # SuffixWord)

\* the filter without its last line, df['weight'] >= 100
KeepRowAnyWeight(r) ==
    /\ r.name # NaNName
    /\ r.price # NaN
    /\ r.price > 0

\* dropna(subset=['name', 'price']); df['price'] > 0; df['weight'] >= 100
KeepRow(r) ==
    /\ r.name # NaNName
    /\ r.price # NaN
    /\ r.price > 0
    /\ r.weight >= 100

load_and_preprocess(rows) ==
    LET cleaned == [i \in 1..Len(rows) |->
                       [rows[i] EXCEPT !.name = CleanName(rows[i].name)]]
        kept    == SelectSeq(cleaned, KeepRow)
        branded == [i \in 1..Len(kept) |->
                       [name               |-> kept[i].name,
                        brand              |-> kept[i].brand,
                        weight             |-> kept[i].weight,
                        price              |-> kept[i].price,
                        platform           |-> kept[i].platform,
                        price_per_100g     |-> kept[i].price_per_100g,
                        brand_standardized |-> standardize_brand(kept[i].brand)]]
    IN  [i \in 1..Len(branded) |->
            [name               |-> branded[i].name,
             brand              |-> branded[i].brand,
             weight             |-> branded[i].weight,
             price              |-> branded[i].price,
             platform           |-> branded[i].platform,
             price_per_100g     |-> branded[i].price_per_100g,
             brand_standardized |-> branded[i].brand_standardized,
             product_key        |-> create_product_key(branded[i])]]

----------------------------------------------------------------------------
(***************************************************************************)
(* DataAnalyser.fuzzy_match_products                                       *)
(***************************************************************************)
\* threshold=80, the default the pipeline runs with
Threshold == 80

\* limit=10 of process.extract
ExtractLimit == 10

\* fuzz.token_sort_ratio(a, b) under the scores sc: 100 for equal strings,
\* symmetric
Ratio(sc, a, b) == IF a = b THEN 100 ELSE sc[{a, b}]

\* the first limit choices in their own order, not the best ones
ExtractUnsorted(sc, query, choices, limit) ==
    LET m == IF limit < Len(choices) THEN limit ELSE Len(choices)
    IN  [p \in 1..m |-> <<choices[p], Ratio(sc, query, choices[p])>>]

\* process.extract(query, choices, scorer, limit): the limit best choices,
\* best first, equal scores in the order of choices
Extract(sc, query, choices, limit) ==
    LET n    == Len(choices)
        S    == [i \in 1..n |-> Ratio(sc, query, choices[i])]
        Rank == [i \in 1..n |->
                    Cardinality({j \in 1..n :
                                    S[j] > S[i] \/ (S[j] = S[i] /\ j < i)})]
        m    == IF limit < n THEN limit ELSE n
    IN  [p \in 1..m |->
            LET i == CHOOSE k \in 1..n : Rank[k] = p - 1
            IN  <<choices[i], S[i]>>]

\* the filter with > for >=: a match at the threshold is left out
HighMatchesAbove(sc, product_key, unique_products) ==
    LET matches == Extract(sc, product_key, unique_products, ExtractLimit)
        high    == SelectSeq(matches, LAMBDA match : match[2] > Threshold)
    IN  [i \in 1..Len(high) |-> high[i][1]]

\* high_matches = [match[0] for match in matches if match[1] >= threshold]
HighMatches(sc, product_key, unique_products) ==
    LET matches == Extract(sc, product_key, unique_products, ExtractLimit)
        high    == SelectSeq(matches, LAMBDA match : match[2] >= Threshold)
    IN  [i \in 1..Len(high) |-> high[i][1]]

\* max(high_matches) for min(high_matches)
MaxKey(ks) ==
    CHOOSE k \in {ks[i] : i \in 1..Len(ks)} :
        \A j \in 1..Len(ks) : ~SeqLess(k, ks[j])

\* min(high_matches)
MinKey(ks) ==
    CHOOSE k \in {ks[i] : i \in 1..Len(ks)} :
        \A j \in 1..Len(ks) : ~SeqLess(ks[j], k)

\* product_groups[group_key].extend(high_matches), the key created at the
\* end of the dict when it is new
ExtendGroup(product_groups, group_key, high_matches) ==
    IF \E g \in 1..Len(product_groups) : product_groups[g].key = group_key
    THEN [g \in 1..Len(product_groups) |->
            IF product_groups[g].key = group_key
            THEN [product_groups[g] EXCEPT !.keys = @ \o high_matches]
            ELSE product_groups[g]]
    ELSE Append(product_groups, [key |-> group_key, keys |-> high_matches])

\* the loop over unique_products, from its i-th key on
RECURSIVE BuildGroups(_, _, _, _)
BuildGroups(sc, unique_products, i, product_groups) ==
    IF i > Len(unique_products) THEN product_groups
    ELSE LET high_matches == HighMatches(sc, unique_products[i], unique_products)
         IN  BuildGroups(sc, unique_products, i + 1,
                 IF high_matches # <<>>
                 THEN ExtendGroup(product_groups, MinKey(high_matches), high_matches)
                 ELSE product_groups)

\* product_groups of a table: the dict as the sequence of its items
ProductGroups(sc, t) ==
    BuildGroups(sc, Unique(Column(t, "product_key")), 1, <<>>)

\* the id of the first group whose list holds the key: an earlier assignment
\* is kept
GroupMappingFirst(product_groups, key) ==
    LET holds == {g \in 1..Len(product_groups) :
                     \E j \in 1..Len(product_groups[g].keys) :
                         product_groups[g].keys[j] = key}
    IN  IF holds = {} THEN NaN
        ELSE (CHOOSE g \in holds : \A h \in holds : g <= h) - 1

\* the ids counted from 1: enumerate(product_groups.values(), 1)
GroupMappingFromOne(product_groups, key) ==
    LET holds == {g \in 1..Len(product_groups) :
                     \E j \in 1..Len(product_groups[g].keys) :
                         product_groups[g].keys[j] = key}
    IN  IF holds = {} THEN NaN
        ELSE CHOOSE g \in holds : \A h \in holds : h <= g

\* group_mapping[key]: the id of the last group whose list holds the key
\* (a later assignment overwrites an earlier one); NaN for a key in no list
GroupMapping(product_groups, key) ==
    LET holds == {g \in 1..Len(product_groups) :
                     \E j \in 1..Len(product_groups[g].keys) :
                         product_groups[g].keys[j] = key}
    IN  IF holds = {} THEN NaN
        ELSE (CHOOSE g \in holds : \A h \in holds : h <= g) - 1

fuzzy_match_products(sc, t) ==
    LET product_groups == ProductGroups(sc, t)
    IN  [i \in 1..Len(t) |->
            [name               |-> t[i].name,
             brand              |-> t[i].brand,
             weight             |-> t[i].weight,
             price              |-> t[i].price,
             platform           |-> t[i].platform,
             price_per_100g     |-> t[i].price_per_100g,
             brand_standardized |-> t[i].brand_standardized,
             product_key        |-> t[i].product_key,
             product_group      |-> GroupMapping(product_groups, t[i].product_key)]]

----------------------------------------------------------------------------
(***************************************************************************)
(* DataAnalyser.identify_best_deals                                        *)
(***************************************************************************)
\* df[df['product_group'] == group_id]: NaN equals nothing, itself included
GroupRows(t, group_id) ==
    IF group_id = NaN THEN <<>>
    ELSE SelectSeq(t, LAMBDA r : r.product_group = group_id)

\* the DealRecord with the best deal decided by < instead of ==
DealOfStrictlyBelow(product, group_id, min_price) ==
    LET price_diff   == product.price_per_100g - min_price
        is_best_deal == product.price_per_100g < min_price
    IN  [product_group            |-> group_id,
         name                     |-> product.name,
         brand                    |-> product.brand_standardized,
         weight                   |-> product.weight,
         price                    |-> product.price,
         price_per_100g           |-> product.price_per_100g,
         platform                 |-> product.platform,
         is_best_deal             |-> is_best_deal,
         price_difference         |-> price_diff,
         \* (price_diff / min_price) * 100 if min_price > 0 else 0, as the
         \* fraction num / den
         price_difference_percent |-> IF min_price > 0
                                      THEN [num |-> price_diff * 100, den |-> min_price]
                                      ELSE [num |-> 0, den |-> 1],
         savings_opportunity      |-> IF ~is_best_deal THEN price_diff ELSE 0]

\* the DealRecord with the two branches of savings_opportunity exchanged
DealOfSavingsSwapped(product, group_id, min_price) ==
    LET price_diff   == product.price_per_100g - min_price
        is_best_deal == product.price_per_100g = min_price
    IN  [product_group            |-> group_id,
         name                     |-> product.name,
         brand                    |-> product.brand_standardized,
         weight                   |-> product.weight,
         price                    |-> product.price,
         price_per_100g           |-> product.price_per_100g,
         platform                 |-> product.platform,
         is_best_deal             |-> is_best_deal,
         price_difference         |-> price_diff,
         \* (price_diff / min_price) * 100 if min_price > 0 else 0, as the
         \* fraction num / den
         price_difference_percent |-> IF min_price > 0
                                      THEN [num |-> price_diff * 100, den |-> min_price]
                                      ELSE [num |-> 0, den |-> 1],
         savings_opportunity      |-> IF is_best_deal THEN price_diff ELSE 0]

\* the DealRecord appended for one product of a group
DealOf(product, group_id, min_price) ==
    LET price_diff   == product.price_per_100g - min_price
        is_best_deal == product.price_per_100g = min_price
    IN  [product_group            |-> group_id,
         name                     |-> product.name,
         brand                    |-> product.brand_standardized,
         weight                   |-> product.weight,
         price                    |-> product.price,
         price_per_100g           |-> product.price_per_100g,
         platform                 |-> product.platform,
         is_best_deal             |-> is_best_deal,
         price_difference         |-> price_diff,
         \* (price_diff / min_price) * 100 if min_price > 0 else 0, as the
         \* fraction num / den
         price_difference_percent |-> IF min_price > 0
                                      THEN [num |-> price_diff * 100, den |-> min_price]
                                      ELSE [num |-> 0, den |-> 1],
         savings_opportunity      |-> IF ~is_best_deal THEN price_diff ELSE 0]

\* the loop body with the differences taken from the dearest product
GroupDealsFromMax(t, group_id) ==
    LET group_products     == GroupRows(t, group_id)
        platforms_in_group == NUnique(Column(group_products, "platform"))
        available_products == SelectSeq(group_products,
                                        LAMBDA r : r.price_per_100g > 0)
    IN  IF platforms_in_group < 2 THEN <<>>
        ELSE IF Len(available_products) < 2 THEN <<>>
        ELSE LET min_price == MaxOf({available_products[i].price_per_100g :
                                      i \in 1..Len(available_products)})
                 priced    == SelectSeq(group_products,
                                        LAMBDA r : r.price_per_100g # 0)
             IN  [i \in 1..Len(priced) |-> DealOf(priced[i], group_id, min_price)]

\* the loop body without the check of the number of platforms
GroupDealsAnyPlatforms(t, group_id) ==
    LET group_products     == GroupRows(t, group_id)
        available_products == SelectSeq(group_products,
                                        LAMBDA r : r.price_per_100g > 0)
    IN  IF Len(available_products) < 2 THEN <<>>
        ELSE LET min_price == Min({available_products[i].price_per_100g :
                                      i \in 1..Len(available_products)})
                 priced    == SelectSeq(group_products,
                                        LAMBDA r : r.price_per_100g # 0)
             IN  [i \in 1..Len(priced) |-> DealOf(priced[i], group_id, min_price)]

\* the body of the loop over the group ids: the records one group appends
GroupDeals(t, group_id) ==
    LET group_products     == GroupRows(t, group_id)
        platforms_in_group == NUnique(Column(group_products, "platform"))
        available_products == SelectSeq(group_products,
                                        LAMBDA r : r.price_per_100g > 0)
    IN  IF platforms_in_group < 2 THEN <<>>
        ELSE IF Len(available_products) < 2 THEN <<>>
        ELSE LET min_price == Min({available_products[i].price_per_100g :
                                      i \in 1..Len(available_products)})
                 priced    == SelectSeq(group_products,
                                        LAMBDA r : r.price_per_100g # 0)
             IN  [i \in 1..Len(priced) |-> DealOf(priced[i], group_id, min_price)]

RECURSIVE DealsFrom(_, _, _)
DealsFrom(t, group_ids, i) ==
    IF i > Len(group_ids) THEN <<>>
    ELSE GroupDeals(t, group_ids[i]) \o DealsFrom(t, group_ids, i + 1)

identify_best_deals(t) ==
    DealsFrom(t, Unique(Column(t, "product_group")), 1)

----------------------------------------------------------------------------
(***************************************************************************)
(* DataAnalyser.generate_insights                                          *)
(***************************************************************************)
\* a call of a pipeline stage: the value returned, or an exception raised
Returned(v) == [exc |-> FALSE, val |-> v]

KeyError == [exc |-> TRUE, val |-> <<>>]

\* an empty DataFrame (pd.DataFrame([])) has no column: groupby('platform')
\* raises KeyError.  Of the dict returned, best_deals_count and
\* max_savings_opportunity are kept.
generate_insights(deals) ==
    IF deals = <<>> THEN KeyError
    ELSE Returned(
        [best_deals_count |->
            [p \in {deals[i].platform : i \in {j \in 1..Len(deals) :
                                                     deals[j].is_best_deal}} |->
                Cardinality({i \in 1..Len(deals) :
                                deals[i].platform = p /\ deals[i].is_best_deal})],
         max_savings_opportunity |->
            MaxOf({deals[i].savings_opportunity : i \in 1..Len(deals)})])

----------------------------------------------------------------------------
(***************************************************************************)
(* DataAnalyser.create_comparison_table                                    *)
(***************************************************************************)
\* None in a price slot
NoneVal == 0 - 2

\* Series.mode(): the most frequent values
MostFrequent(s) ==
    LET vals     == {s[i] : i \in 1..Len(s)}
        Count(v) == Cardinality({i \in 1..Len(s) : s[i] = v})
    IN  {v \in vals : \A w \in vals : Count(w) <= Count(v)}

StrLess(a, b) == WordRank(a) < WordRank(b)

\* the most frequent name that comes first in the rows, mode() unsorted
ModeOfNamesFirst(s) ==
    s[Min({i \in 1..Len(s) : s[i] \in MostFrequent(s)})]

\* group_products['name'].mode()[0]: mode() is sorted, [0] is the smallest
\* of the most frequent names
ModeOfNames(s) ==
    CHOOSE v \in MostFrequent(s) : \A w \in MostFrequent(s) : ~SeqLess(w, v)

\* group_products['brand'].mode()[0]
ModeOfBrands(s) ==
    CHOOSE v \in MostFrequent(s) : \A w \in MostFrequent(s) : ~StrLess(w, v)

\* the platform columns of a row, all initialised
EmptySlots ==
    [p \in {Platforms[i] : i \in 1..Len(Platforms)} |->
        [price |-> NoneVal, per_100g |-> NoneVal, is_best |-> FALSE]]

\* the loop with the comparison of the prices left out: the platform of the
\* last product
RECURSIVE BestDealPlatformLast(_, _, _, _)
BestDealPlatformLast(group_products, i, best_price_per_100g, best_deal_platform) ==
    IF i > Len(group_products) THEN best_deal_platform
    ELSE BestDealPlatformLast(group_products, i + 1,
                              group_products[i].price_per_100g,
                              group_products[i].platform)

\* the loop that finds best_deal_platform, from its i-th product on
RECURSIVE BestDealPlatform(_, _, _, _)
BestDealPlatform(group_products, i, best_price_per_100g, best_deal_platform) ==
    IF i > Len(group_products) THEN best_deal_platform
    ELSE IF group_products[i].price_per_100g < best_price_per_100g
         THEN BestDealPlatform(group_products, i + 1,
                               group_products[i].price_per_100g,
                               group_products[i].platform)
         ELSE BestDealPlatform(group_products, i + 1,
                               best_price_per_100g, best_deal_platform)

\* the loop with every product overwriting the columns of its platform
RECURSIVE PopulateLastWins(_, _, _, _, _)
PopulateLastWins(group_products, i, slots, is_comparable, best_deal_platform) ==
    IF i > Len(group_products) THEN Returned(slots)
    ELSE LET product  == group_products[i]
             platform == product.platform
         IN  IF platform \notin DOMAIN slots THEN KeyError
             ELSE LET priced ==
                        [slots EXCEPT ![platform].price = product.price,
                                      ![platform].per_100g = product.price_per_100g]
                      marked ==
                        IF is_comparable /\ platform = best_deal_platform
                        THEN [priced EXCEPT ![platform].is_best = TRUE]
                        ELSE priced
                  IN  PopulateLastWins(group_products, i + 1, marked,
                                       is_comparable, best_deal_platform)

\* the loop that populates the platform columns, from its i-th product on;
\* a platform that has no column raises KeyError
RECURSIVE Populate(_, _, _, _, _)
Populate(group_products, i, slots, is_comparable, best_deal_platform) ==
    IF i > Len(group_products) THEN Returned(slots)
    ELSE LET product  == group_products[i]
             platform == product.platform
         IN  IF platform \notin DOMAIN slots THEN KeyError
             ELSE LET priced ==
                        IF \/ /\ slots[platform].per_100g # NoneVal
                              /\ product.price_per_100g < slots[platform].per_100g
                           \/ slots[platform].per_100g = NoneVal
                        THEN [slots EXCEPT ![platform].price = product.price,
                                           ![platform].per_100g = product.price_per_100g]
                        ELSE slots
                      marked ==
                        IF is_comparable /\ platform = best_deal_platform
                        THEN [priced EXCEPT ![platform].is_best = TRUE]
                        ELSE priced
                  IN  Populate(group_products, i + 1, marked, is_comparable,
                               best_deal_platform)

\* no platform chosen
NoPlatform == "<None>"

\* the row of one group
ComparisonRow(deals, group_id) ==
    LET group_products    == GroupRows(deals, group_id)
        platforms_present == NUnique(Column(group_products, "platform"))
        is_comparable     == platforms_present >= 2
        best == IF is_comparable
                THEN BestDealPlatform(group_products, 1, Inf, NoPlatform)
                ELSE NoPlatform
        slots == Populate(group_products, 1, EmptySlots, is_comparable, best)
    IN  IF slots.exc THEN KeyError
        ELSE Returned(
            [product_name        |-> ModeOfNames(Column(group_products, "name")),
             brand               |-> ModeOfBrands(Column(group_products, "brand")),
             is_comparable       |-> is_comparable,
             platforms_available |-> platforms_present,
             slots               |-> slots.val])

\* deals_df['product_group'] of an empty DataFrame raises KeyError
create_comparison_table(deals) ==
    IF deals = <<>> THEN KeyError
    ELSE LET all_product_groups == Unique(Column(deals, "product_group"))
             rows == [g \in 1..Len(all_product_groups) |->
                         ComparisonRow(deals, all_product_groups[g])]
         IN  IF \E g \in 1..Len(rows) : rows[g].exc THEN KeyError
             ELSE Returned([g \in 1..Len(rows) |-> rows[g].val])

----------------------------------------------------------------------------
(***************************************************************************)
(* run_analysis.main: the stages in the order main calls them.  An         *)
(* exception of a stage is not caught: main ends with it (pc = "raised").  *)
(***************************************************************************)
\* the scores fuzz.token_sort_ratio may give two different keys
Scores == {79, 80}

\* the products of a session in which every product passes the filter of
\* load_and_preprocess; the price 1 gives price_per_100g = 0.0
ValidProducts ==
    {Product(n, "Britannia", 400, p) :
        n \in {<<"Bread">>, <<"Loaf">>}, p \in {1, 5000, 5500}}
    \cup {Product(<<"Fresh", "Bread">>, "Britannia", 400, 5000)}

\* products of which load_and_preprocess drops some: a missing name or
\* price, the price 0.0 and the weights 0.0 and 99 of the parsers
LoadProducts ==
    {Product(n, "Brittania", w, p) :
        n \in {NaNName, <<"Bread", SuffixWord>>},
        w \in {0, 99, 100},
        p \in {NaN, 0, 5000}}

\* the combined data of a session: each platform name with its products
Combined(a, b, c) ==
    [p \in {"blinkit", "zepto", "bbnow"} |->
        CASE p = "blinkit" -> a [] p = "zepto" -> b [] p = "bbnow" -> c]

\* the pairs of different product keys of a CSV file
KeyPairs(rows) ==
    LET keys == {r.product_key :
                    r \in {load_and_preprocess(rows)[i] :
                              i \in 1..Len(load_and_preprocess(rows))}}
    IN  {{a, b} : a \in keys, b \in keys} \ {{a} : a \in keys}

\* the CSV file of a session of at most max products drawn from products
InitPipeline(products, max) ==
    /\ \E n1 \in 0..max : \E n2 \in 0..(max - n1) : \E n3 \in 0..(max - n1 - n2) :
         \E a \in [1..n1 -> products], b \in [1..n2 -> products],
            c \in [1..n3 -> products] :
             csv = convert_to_dataframe(Combined(a, b, c))
    /\ score \in [KeyPairs(csv) -> Scores]
    /\ df = <<>>
    /\ df_matched = <<>>
    /\ deals_df = <<>>
    /\ insights = <<>>
    /\ comparison_table = <<>>
    /\ pc = "load"
    /\ text = <<>>
    /\ out = Zero
    /\ tpc = "idle"
    /\ ScrapeIdle

Init == InitPipeline(ValidProducts, MaxRows)

InitLoad == InitPipeline(LoadProducts, MaxLoadRows)

\* three products with three different keys: 55 and 50 for 400 g, 40 for
\* 300 g
GroupProducts ==
    {Product(<<"Bread">>, "Britannia", 400, 5500),
     Product(<<"Loaf">>, "Britannia", 400, 5000),
     Product(<<"Bread", "Loaf">>, "Britannia", 300, 4000)}

InitGroup == InitPipeline(GroupProducts, MaxRows)

\* products of two names and two brands: the names give one cleaned name
\* (the word "fresh" is removed), the brands give two product keys
BrandProducts ==
    {Product(n, b, 400, IF n = <<"Bread">> THEN 5000 ELSE 5500) :
        n \in {<<"Bread">>, <<"Fresh", "Bread">>},
        b \in {"Britannia", "Unknown"}}

InitBrand == InitPipeline(BrandProducts, MaxRows)

\* the platform of an earlier version of run_scrapers.py, which bbnow
\* replaced
OlderPlatform == "instamart"

\* the CSV file of a session of that earlier version, the latest file of
\* data/processed: rows of the three platforms followed by rows of the older
\* platform
InitOlderCsv ==
    /\ \E n1 \in 0..MaxRows : \E n2 \in 0..(MaxRows - n1) :
         \E n3 \in 0..(MaxRows - n1 - n2) : \E n4 \in 0..(MaxRows - n1 - n2 - n3) :
             \E a \in [1..n1 -> GroupProducts], b \in [1..n2 -> GroupProducts],
                c \in [1..n3 -> GroupProducts], d \in [1..n4 -> GroupProducts] :
                 csv = convert_to_dataframe(Combined(a, b, c))
                         \o PlatformRows(d, OlderPlatform)
    /\ score \in [KeyPairs(csv) -> Scores]
    /\ df = <<>>
    /\ df_matched = <<>>
    /\ deals_df = <<>>
    /\ insights = <<>>
    /\ comparison_table = <<>>
    /\ pc = "load"
    /\ text = <<>>
    /\ out = Zero
    /\ tpc = "idle"
    /\ ScrapeIdle

\* the names of a catalogue of products of one brand, all different
CatalogueNames ==
    <<  <<"Bread">>, <<"Loaf">>,
        <<"Bread", "Bread">>, <<"Bread", "Loaf">>,
        <<"Loaf", "Bread">>, <<"Loaf", "Loaf">>,
        <<"Bread", "Bread", "Bread">>, <<"Bread", "Bread", "Loaf">>,
        <<"Bread", "Loaf", "Bread">>, <<"Bread", "Loaf", "Loaf">>,
        <<"Loaf", "Bread", "Bread">>, <<"Loaf", "Bread", "Loaf">>,
        <<"Loaf", "Loaf", "Bread">>, <<"Loaf", "Loaf", "Loaf">>  >>

\* the products from..to of the catalogue, as one platform lists them
CatalogueProducts(from, to) ==
    [i \in 1..(to - from + 1) |->
        Product(CatalogueNames[from + i - 1], "Britannia", 400,
                IF (from + i) % 2 = 0 THEN 5000 ELSE 5500)]

\* the product key load_and_preprocess gives the i-th product of the catalogue
CatalogueKey(i) ==
    create_product_key([name |-> CatalogueNames[i],
                        brand_standardized |-> standardize_brand("Britannia")])

\* a session over the first n products of the catalogue, half of them on
\* blinkit and the others on zepto; the keys of the products lo..hi all score
\* s against each other, every other pair scores below the threshold
InitCatalogue ==
    /\ \E n \in 1..MaxKeys : \E lo \in 1..n : \E hi \in lo..n :
         \E s \in {Threshold, 100} :
             /\ csv = convert_to_dataframe(
                          Combined(CatalogueProducts(1, n \div 2),
                                   CatalogueProducts((n \div 2) + 1, n), <<>>))
             /\ score = [pr \in KeyPairs(csv) |->
                            IF pr \subseteq {CatalogueKey(i) : i \in lo..hi}
                            THEN s ELSE Threshold - 1]
    /\ df = <<>>
    /\ df_matched = <<>>
    /\ deals_df = <<>>
    /\ insights = <<>>
    /\ comparison_table = <<>>
    /\ pc = "load"
    /\ text = <<>>
    /\ out = Zero
    /\ tpc = "idle"
    /\ ScrapeIdle

\* df = analyser.load_and_preprocess(latest_file)
LoadAndPreprocess ==
    /\ pc = "load"
    /\ df' = load_and_preprocess(csv)
    /\ pc' = "match"
    /\ UNCHANGED <<csv, score, df_matched, deals_df, insights,
                   comparison_table, textVars, scrapeVars>>

\* df_matched = analyser.fuzzy_match_products(df): the column product_group
\* is added to df itself, which is returned
FuzzyMatchProducts ==
    /\ pc = "match"
    /\ df' = fuzzy_match_products(score, df)
    /\ df_matched' = df'
    /\ pc' = "deals"
    /\ UNCHANGED <<csv, score, deals_df, insights, comparison_table,
                   textVars, scrapeVars>>

\* deals_df = analyser.identify_best_deals(df_matched)
IdentifyBestDeals ==
    /\ pc = "deals"
    /\ deals_df' = identify_best_deals(df_matched)
    /\ pc' = "insights"
    /\ UNCHANGED <<csv, score, df, df_matched, insights, comparison_table,
                   textVars, scrapeVars>>

\* insights = analyser.generate_insights(deals_df)
GenerateInsights ==
    /\ pc = "insights"
    /\ LET r == generate_insights(deals_df)
       IN  IF r.exc
           THEN /\ pc' = "raised"
                /\ UNCHANGED insights
           ELSE /\ pc' = "table"
                /\ insights' = r.val
    /\ UNCHANGED <<csv, score, df, df_matched, deals_df, comparison_table,
                   textVars, scrapeVars>>

\* comparison_table = analyser.create_comparison_table(deals_df)
CreateComparisonTable ==
    /\ pc = "table"
    /\ LET r == create_comparison_table(deals_df)
       IN  IF r.exc
           THEN /\ pc' = "raised"
                /\ UNCHANGED comparison_table
           ELSE /\ pc' = "done"
                /\ comparison_table' = r.val
    /\ UNCHANGED <<csv, score, df, df_matched, deals_df, insights,
                   textVars, scrapeVars>>

Next ==
    \/ LoadAndPreprocess
    \/ FuzzyMatchProducts
    \/ IdentifyBestDeals
    \/ GenerateInsights
    \/ CreateComparisonTable

Spec == Init /\ [][Next]_vars

SpecLoad == InitLoad /\ [][Next]_vars

SpecCatalogue == InitCatalogue /\ [][Next]_vars

SpecGroup == InitGroup /\ [][Next]_vars

SpecBrand == InitBrand /\ [][Next]_vars

SpecOlderCsv == InitOlderCsv /\ [][Next]_vars

----------------------------------------------------------------------------
(***************************************************************************)
(* run_scrapers.main: the three run_single_scraper coroutines that         *)
(* asyncio.gather runs on one event loop, one step of one coroutine at a   *)
(* time, then the statements of main that follow the gather.               *)
(***************************************************************************)
PlatformNames == {Platforms[i] : i \in 1..Len(Platforms)}

\* the products the pages list
ScrapedProducts ==
    <<Product(<<"Bread">>, "Britannia", 400, 5000),
      Product(<<"Loaf">>, "Britannia", 400, 5500),
      Product(<<"Bread", "Loaf">>, "Britannia", 300, 4000)>>

\* the n-th product of the page of a platform: each page lists the products
\* from its own place on, so that no two platforms extract the same list
PageProduct(p, n) ==
    ScrapedProducts[
        (((CHOOSE i \in 1..Len(Platforms) : Platforms[i] = p) + n - 2)
            % Len(ScrapedProducts)) + 1]

\* an exception raised while scraping
ScrapeError == [exc |-> TRUE, val |-> <<>>]

\* the handler left out: the exception reaches the caller
ExceptReraise(r) == r

\* try: ... except Exception as e: ...; return []
ExceptReturnEmpty(r) == IF r.exc THEN Returned(<<>>) ELSE r

\* BaseScraper.run_scraper: what the body of its try block produced, or []
run_scraper(body) == ExceptReturnEmpty(body)

\* run_single_scraper: what the body of its try block produced, or []
run_single_scraper(body) == ExceptReturnEmpty(body)

\* a coroutine of run_single_scraper that has not been started
NewTask ==
    [pos |-> "created", data |-> <<>>, raised |-> "no", result |-> Returned(<<>>),
     finished |-> 0]

\* the place of a coroutine that returns now among those that have returned
FinishedNext(ts) ==
    Cardinality({p \in PlatformNames : ts[p].pos = "done"}) + 1

\* None returned by load_combined_data
NoData == [none |-> TRUE]

\* save_combined_data: the structure written to the combined file
CombinedStructure(data) ==
    [scraping_session |->
        [scraping_timestamp |-> "timestamp",
         total_products |-> Len(data[Platforms[1]]) + Len(data[Platforms[2]])
                              + Len(data[Platforms[3]])],
     platforms |->
        [p \in PlatformNames |->
            [products_count |-> Len(data[p]), products |-> data[p]]]]

\* no product on any platform
NoProducts == [p \in PlatformNames |-> <<>>]

\* one product on the first platform
OneProduct ==
    [p \in PlatformNames |->
        IF p = Platforms[1]
        THEN <<Product(<<"Bread">>, "Britannia", 400, 5000)>>
        ELSE <<>>]

\* the combined files an earlier session may have left in data/raw: one
\* written by save_combined_data, one without the key "platforms", one
\* without the key "scraping_session", one whose platforms have no key
\* "products"
OlderFiles ==
    {CombinedStructure(OneProduct),
     [scraping_session |-> CombinedStructure(OneProduct).scraping_session],
     [platforms |-> CombinedStructure(OneProduct).platforms],
     [scraping_session |-> CombinedStructure(NoProducts).scraping_session,
      platforms |-> [p \in PlatformNames |-> [products_count |-> 0]]]}

\* the statements of convert_to_dataframe inside its try block: a missing
\* key raises KeyError
ConvertTry(cd) ==
    IF "platforms" \notin DOMAIN cd THEN KeyError
    ELSE IF \E p \in PlatformNames : "products" \notin DOMAIN cd.platforms[p]
         THEN KeyError
    ELSE IF /\ \E p \in PlatformNames : cd.platforms[p].products # <<>>
            /\ \/ "scraping_session" \notin DOMAIN cd
               \/ "scraping_timestamp" \notin DOMAIN cd.scraping_session
         THEN KeyError
    ELSE Returned(convert_to_dataframe(
                      [p \in PlatformNames |-> cd.platforms[p].products]))

\* try: ... except Exception as e: ...; return pd.DataFrame()
ConvertCombined(cd) ==
    IF ConvertTry(cd).exc THEN Returned(<<>>) ELSE ConvertTry(cd)

InitScrape ==
    /\ tasks = [p \in PlatformNames |-> NewTask]
    /\ all_platforms_data = <<>>
    /\ platform_files = <<>>
    /\ combined_file = "none"
    /\ combined_data = NoData
    /\ scraped_df = <<>>
    /\ mpc = "gather"
    /\ csv = <<>>
    /\ score = <<>>
    /\ df = <<>>
    /\ df_matched = <<>>
    /\ deals_df = <<>>
    /\ insights = <<>>
    /\ comparison_table = <<>>
    /\ pc = "idle"
    /\ text = <<>>
    /\ out = Zero
    /\ tpc = "idle"

\* scraper = scraper_class(); data = await scraper.run_scraper(url): the
\* coroutine is inside both try blocks
StartScraper(p) ==
    /\ mpc = "gather"
    /\ tasks[p].pos = "created"
    /\ tasks' = [tasks EXCEPT ![p].pos = "running"]
    /\ UNCHANGED <<all_platforms_data, platform_files, combined_file,
                   combined_data, scraped_df, mpc, textVars, pipeVars>>

\* scraper_class() raises: the handler of run_single_scraper returns []
ConstructorRaises(p) ==
    /\ mpc = "gather"
    /\ tasks[p].pos = "created"
    /\ tasks' = [tasks EXCEPT ![p].pos = "done",
                              ![p].raised = "constructor",
                              ![p].result = run_single_scraper(ScrapeError),
                              ![p].finished = FinishedNext(tasks)]
    /\ UNCHANGED <<all_platforms_data, platform_files, combined_file,
                   combined_data, scraped_df, mpc, textVars, pipeVars>>

\* self.data.append(product_data)
AppendProduct(p) ==
    /\ mpc = "gather"
    /\ tasks[p].pos = "running"
    /\ Len(tasks[p].data) < MaxScraped
    /\ LET product_data == PageProduct(p, Len(tasks[p].data) + 1)
       IN  tasks' = [tasks EXCEPT ![p].data = Append(@, product_data)]
    /\ UNCHANGED <<all_platforms_data, platform_files, combined_file,
                   combined_data, scraped_df, mpc, textVars, pipeVars>>

\* return self.data, then return data
ScraperReturns(p) ==
    /\ mpc = "gather"
    /\ tasks[p].pos = "running"
    /\ tasks' = [tasks EXCEPT
                    ![p].pos = "done",
                    ![p].result =
                        run_single_scraper(run_scraper(Returned(tasks[p].data))),
                    ![p].finished = FinishedNext(tasks)]
    /\ UNCHANGED <<all_platforms_data, platform_files, combined_file,
                   combined_data, scraped_df, mpc, textVars, pipeVars>>

\* an exception inside the try block of run_scraper (the browser, the page,
\* the screenshot of scrape_products' own handler)
ScraperRaises(p) ==
    /\ mpc = "gather"
    /\ tasks[p].pos = "running"
    /\ tasks' = [tasks EXCEPT
                    ![p].pos = "done",
                    ![p].raised = "scraper",
                    ![p].result = run_single_scraper(run_scraper(ScrapeError)),
                    ![p].finished = FinishedNext(tasks)]
    /\ UNCHANGED <<all_platforms_data, platform_files, combined_file,
                   combined_data, scraped_df, mpc, textVars, pipeVars>>

\* the results in the order in which the coroutines returned
GatherResultsAsCompleted(ts) ==
    [i \in 1..Len(Platforms) |->
        ts[CHOOSE p \in PlatformNames : ts[p].finished = i].result]

\* results = await asyncio.gather(*tasks): the results in the order of the
\* awaitables, whichever coroutine returned first
GatherResults(ts) ==
    [i \in 1..Len(Platforms) |-> ts[Platforms[i]].result]

\* the place of a platform in scrapers_config
ConfigIndex(p) == CHOOSE i \in 1..Len(Platforms) : Platforms[i] = p

\* no file of a platform
NoFile == [none |-> TRUE]

\* save_platform_data: the structure written to the file of a platform
PlatformStructure(platform_data, platform_name) ==
    [platform |-> platform_name,
     scraping_timestamp |-> "timestamp",
     products_count |-> Len(platform_data),
     products |-> platform_data]

\* results = await asyncio.gather(*tasks), then the loop over
\* zip(scrapers_config, results) that fills all_platforms_data and saves the
\* data of each platform (save_platform_data catches its own exceptions: a
\* file may not be written); an exception of a coroutine is raised by the
\* await
Gather ==
    /\ mpc = "gather"
    /\ \A p \in PlatformNames : tasks[p].pos = "done"
    /\ LET results == GatherResults(tasks)
       IN  IF \E i \in 1..Len(results) : results[i].exc
           THEN /\ mpc' = "raised"
                /\ UNCHANGED <<all_platforms_data, platform_files>>
           ELSE /\ mpc' = "save"
                /\ all_platforms_data' =
                      [p \in PlatformNames |-> results[ConfigIndex(p)].val]
                /\ \E written \in SUBSET PlatformNames :
                      platform_files' =
                          [p \in PlatformNames |->
                              IF p \in written
                              THEN PlatformStructure(results[ConfigIndex(p)].val, p)
                              ELSE NoFile]
    /\ UNCHANGED <<tasks, combined_file, combined_data, scraped_df,
                   textVars, pipeVars>>

\* combined_file = data_manager.save_combined_data(all_platforms_data): the
\* file name, or None when writing the file raised
SaveCombinedData ==
    /\ mpc = "save"
    /\ \E written \in BOOLEAN :
          combined_file' = IF written THEN "saved" ELSE "none"
    /\ mpc' = "load"
    /\ UNCHANGED <<tasks, all_platforms_data, platform_files, combined_data,
                   scraped_df, textVars, pipeVars>>

\* combined_data = data_manager.load_combined_data(combined_file): the file
\* just written, or for None the most recent file of data/raw (None when
\* there is none)
LoadCombinedData ==
    /\ mpc = "load"
    /\ IF combined_file = "saved"
       THEN combined_data' = CombinedStructure(all_platforms_data)
       ELSE \E older \in OlderFiles \cup {NoData} : combined_data' = older
    /\ mpc' = "convert"
    /\ UNCHANGED <<tasks, all_platforms_data, platform_files, combined_file,
                   scraped_df, textVars, pipeVars>>

\* if combined_data: df = data_manager.convert_to_dataframe(combined_data)
\* ...; return all_platforms_data
ConvertToDataframe ==
    /\ mpc = "convert"
    /\ IF combined_data # NoData
       THEN scraped_df' = ConvertCombined(combined_data)
       ELSE UNCHANGED scraped_df
    /\ mpc' = "returned"
    /\ UNCHANGED <<tasks, all_platforms_data, platform_files, combined_file,
                   combined_data, textVars, pipeVars>>

NextScrape ==
    \/ \E p \in PlatformNames :
          \/ StartScraper(p)
          \/ ConstructorRaises(p)
          \/ AppendProduct(p)
          \/ ScraperReturns(p)
          \/ ScraperRaises(p)
    \/ Gather
    \/ SaveCombinedData
    \/ LoadCombinedData
    \/ ConvertToDataframe

\* the event loop runs a coroutine that is ready, and main runs on
SpecScrape == InitScrape /\ [][NextScrape]_vars /\ WF_vars(NextScrape)

----------------------------------------------------------------------------
(***************************************************************************)
(* Properties of the pipeline (Spec, SpecLoad).                            *)
(***************************************************************************)
\* identify_best_deals has returned
AfterDeals == pc \in {"insights", "table", "done", "raised"}

GroupIdsOf(t) == {t[i].product_group : i \in 1..Len(t)}

RowsOfGroup(t, g) == {i \in 1..Len(t) : t[i].product_group = g}

PlatformsOfGroup(t, g) == {t[i].platform : i \in RowsOfGroup(t, g)}

PositiveRowsOfGroup(t, g) ==
    {i \in RowsOfGroup(t, g) : t[i].price_per_100g > 0}

\* the group is one identify_best_deals compares
Comparable(t, g) ==
    /\ Cardinality(PlatformsOfGroup(t, g)) >= 2
    /\ Cardinality(PositiveRowsOfGroup(t, g)) >= 2

\* C1: when main has built the comparison table, the table has one row for
\* every product group the matcher assigned, the groups of a single platform
\* included.
C1_TableHasEveryGroup ==
    pc = "done" =>
        Len(comparison_table) = Cardinality(GroupIdsOf(df_matched))

\* C2: every group handed to identify_best_deals with records of 2 platforms
\* or more and 2 records or more priced above 0 has a DealRecord with
\* is_best_deal true and savings_opportunity 0.
C2_BestDealExists ==
    AfterDeals =>
        \A g \in GroupIdsOf(df_matched) :
            Comparable(df_matched, g) =>
                \E i \in RowsOfGroup(deals_df, g) :
                    /\ deals_df[i].is_best_deal
                    /\ deals_df[i].savings_opportunity = 0

\* a comparable group of three records, one of them dearer than the best
C2_Witness ==
    /\ AfterDeals
    /\ \E g \in GroupIdsOf(df_matched) :
          /\ Comparable(df_matched, g)
          /\ Cardinality(RowsOfGroup(deals_df, g)) = 3
          /\ \E i \in RowsOfGroup(deals_df, g) : ~deals_df[i].is_best_deal

\* C3: every DealRecord has savings_opportunity >= 0 and
\* price_difference >= 0, and its savings_opportunity is 0 exactly when it is
\* the best deal.
C3_SavingsNonNegative ==
    \A i \in 1..Len(deals_df) :
        /\ deals_df[i].savings_opportunity >= 0
        /\ deals_df[i].price_difference >= 0
        /\ (deals_df[i].savings_opportunity = 0) <=> deals_df[i].is_best_deal

\* a best deal and a record that saves nothing less than 1.25 beside it
C3_Witness ==
    \E i, j \in 1..Len(deals_df) :
        /\ deals_df[i].product_group = deals_df[j].product_group
        /\ deals_df[i].is_best_deal
        /\ ~deals_df[j].is_best_deal
        /\ deals_df[j].savings_opportunity = 125

\* the platforms of a group of DealRecords that have a record with
\* price_difference = 0
ZeroDifferencePlatforms(g) ==
    {deals_df[i].platform :
        i \in {j \in RowsOfGroup(deals_df, g) : deals_df[j].price_difference = 0}}

\* two platforms of the group both have a record at the lowest price_per_100g
\* of the group
TiedAtMinimum(g) ==
    \E i, j \in RowsOfGroup(deals_df, g) :
        /\ deals_df[i].platform # deals_df[j].platform
        /\ deals_df[i].price_per_100g = deals_df[j].price_per_100g
        /\ \A k \in RowsOfGroup(deals_df, g) :
              deals_df[i].price_per_100g <= deals_df[k].price_per_100g

\* C4 as stated: in every group of DealRecords with 2 platforms or more, the
\* records with price_difference = 0 belong to exactly one platform, also
\* when two platforms have equal price_per_100g.
C4_ExactlyOnePlatformAtZero ==
    \A g \in GroupIdsOf(deals_df) :
        Cardinality(PlatformsOfGroup(deals_df, g)) >= 2 =>
            Cardinality(ZeroDifferencePlatforms(g)) = 1

\* C4 as amended: in every group of DealRecords with 2 platforms or more,
\* some record has price_difference = 0, and the records with
\* price_difference = 0 belong to exactly one platform unless two platforms
\* both have a record at the lowest price_per_100g of the group; then each
\* of those platforms has a record with price_difference = 0.
C4_OnePlatformAtZeroUnlessTied ==
    \A g \in GroupIdsOf(deals_df) :
        Cardinality(PlatformsOfGroup(deals_df, g)) >= 2 =>
            /\ ZeroDifferencePlatforms(g) # {}
            /\ ~TiedAtMinimum(g) => Cardinality(ZeroDifferencePlatforms(g)) = 1
            /\ TiedAtMinimum(g) => Cardinality(ZeroDifferencePlatforms(g)) >= 2

\* a group of three platforms, two of them equal above the cheapest one
C4_Witness ==
    \E g \in GroupIdsOf(deals_df) :
        /\ Cardinality(PlatformsOfGroup(deals_df, g)) = 3
        /\ ~TiedAtMinimum(g)
        /\ Cardinality(ZeroDifferencePlatforms(g)) = 1
        /\ \E i, j \in RowsOfGroup(deals_df, g) :
              /\ i # j
              /\ deals_df[i].price_difference = deals_df[j].price_difference
              /\ deals_df[i].price_difference > 0

\* C5: a group with records of fewer than 2 platforms, and a group with fewer
\* than 2 records priced above 0, has no DealRecord.
C5_NoDealsWithoutComparison ==
    AfterDeals =>
        \A g \in GroupIdsOf(df_matched) :
            ~Comparable(df_matched, g) => RowsOfGroup(deals_df, g) = {}

\* a group of one platform beside a group of two platforms that has one
\* record priced above 0 only
C5_Witness ==
    /\ AfterDeals
    /\ \E g, h \in GroupIdsOf(df_matched) :
          /\ Cardinality(PlatformsOfGroup(df_matched, g)) = 1
          /\ Cardinality(PlatformsOfGroup(df_matched, h)) = 2
          /\ Cardinality(PositiveRowsOfGroup(df_matched, h)) = 1
          /\ deals_df = <<>>

\* the fields a record must have to pass the Normalizer
ValidRecord(r) ==
    /\ r.name # NaNName
    /\ r.price # NaN
    /\ r.price > 0
    /\ r.weight >= 100

\* the fields of a record that no stage rewrites
Identity(r) == <<r.brand, r.weight, r.price, r.platform>>

\* C6: every record load_and_preprocess returns, and every record of a later
\* stage, has a name, a price above 0 and a weight of 100 or more; a record
\* of the file with a missing name or price, a price of 0 or less or a
\* weight below 100 is in no stage's table.
C6_OnlyValidRecords ==
    /\ \A i \in 1..Len(df) : ValidRecord(df[i])
    /\ \A i \in 1..Len(df_matched) : ValidRecord(df_matched[i])
    /\ \A i \in 1..Len(deals_df) : ValidRecord(deals_df[i])
    /\ pc # "load" =>
          /\ Len(df) <= Cardinality({j \in 1..Len(csv) : ValidRecord(csv[j])})
          /\ \A i \in 1..Len(df) :
                \E j \in 1..Len(csv) :
                    /\ ValidRecord(csv[j])
                    /\ Identity(csv[j]) = Identity(df[i])

\* a file of two records, one kept and one of weight 99 dropped
C6_Witness ==
    /\ pc # "load"
    /\ Len(csv) = 2
    /\ Len(df) = 1
    /\ \E j \in 1..Len(csv) :
          /\ csv[j].name # NaNName
          /\ csv[j].price = 5000
          /\ csv[j].weight = 99

\* C12: when load_and_preprocess returned records and no group is one
\* identify_best_deals compares, identify_best_deals, generate_insights and
\* create_comparison_table all return without raising, and every group has a
\* row in the comparison table, marked not comparable.
C12_NoComparableGroupCompletes ==
    ( /\ pc \in {"done", "raised"}
      /\ df # <<>>
      /\ \A g \in GroupIdsOf(df_matched) : ~Comparable(df_matched, g) ) =>
        /\ pc = "done"
        /\ Len(comparison_table) = Cardinality(GroupIdsOf(df_matched))
        /\ \A i \in 1..Len(comparison_table) :
              ~comparison_table[i].is_comparable

\* C16: each stage leaves the table it is given as it was: across
\* fuzzy_match_products the caller's df, across identify_best_deals the
\* caller's df_matched and across create_comparison_table the caller's
\* deals_df keep their columns and values.
C16_StagesLeaveInputUnchanged ==
    [][ /\ (pc = "match" => df' = df)
        /\ (pc = "deals" => df_matched' = df_matched)
        /\ (pc = "table" => deals_df' = deals_df) ]_vars

\* the DealRecords of a group that belong to a platform
PlatformRowsOfGroup(g, p) ==
    {i \in RowsOfGroup(deals_df, g) : deals_df[i].platform = p}

\* the group of the g-th row of the comparison table
GroupOfRow(g) == Unique(Column(deals_df, "product_group"))[g]

\* C20: in every row of the comparison table, the per_100g slot of a
\* platform that has records in the group holds the lowest price_per_100g of
\* those records and its price slot the price of a record at that
\* price_per_100g, whatever the order of the records; the slots of a
\* platform without a record in the group are None and its is_best is false.
C20_SlotsHoldPlatformMinimum ==
    pc = "done" =>
        \A g \in 1..Len(comparison_table) :
            \A p \in {Platforms[k] : k \in 1..Len(Platforms)} :
                LET rows == PlatformRowsOfGroup(GroupOfRow(g), p)
                    slot == comparison_table[g].slots[p]
                IN  IF rows = {}
                    THEN /\ slot.price = NoneVal
                         /\ slot.per_100g = NoneVal
                         /\ ~slot.is_best
                    ELSE /\ slot.per_100g =
                               Min({deals_df[i].price_per_100g : i \in rows})
                         /\ \E i \in rows :
                               /\ deals_df[i].price_per_100g = slot.per_100g
                               /\ deals_df[i].price = slot.price

\* a row whose group has two records of one platform, the dearer one first,
\* and no record of another platform
C20_Witness ==
    /\ pc = "done"
    /\ \E g \in 1..Len(comparison_table) :
          /\ \E p \in {Platforms[k] : k \in 1..Len(Platforms)} :
                \E i, j \in PlatformRowsOfGroup(GroupOfRow(g), p) :
                    /\ i < j
                    /\ deals_df[i].price_per_100g > deals_df[j].price_per_100g
                    /\ comparison_table[g].slots[p].price = deals_df[j].price
          /\ \E q \in {Platforms[k] : k \in 1..Len(Platforms)} :
                /\ PlatformRowsOfGroup(GroupOfRow(g), q) = {}
                /\ comparison_table[g].slots[q].price = NoneVal

\* the three records of the scenario: A (55 for 400 g) on the first
\* platform and B (50 for 400 g) on the second in one group, C (40 for
\* 300 g) on the third alone in its group
ScenarioMatched ==
    /\ Len(df_matched) = 3
    /\ \A i \in 1..3 : df_matched[i].platform = Platforms[i]
    /\ df_matched[1].price = 5500 /\ df_matched[1].weight = 400
    /\ df_matched[2].price = 5000 /\ df_matched[2].weight = 400
    /\ df_matched[3].price = 4000 /\ df_matched[3].weight = 300
    /\ df_matched[1].product_group = df_matched[2].product_group
    /\ df_matched[3].product_group # df_matched[1].product_group

\* C15: for the records A, B and C of the scenario, identify_best_deals
\* returns the two DealRecords of the group of A and B and nothing else: A at
\* 13.75 per 100 g, not the best deal, savings_opportunity 1.25; B at 12.5
\* per 100 g, the best deal, savings_opportunity 0; no DealRecord for C.
C15_ScenarioDeals ==
    (AfterDeals /\ ScenarioMatched) =>
        /\ Len(deals_df) = 2
        /\ deals_df[1].platform = Platforms[1]
        /\ deals_df[1].price_per_100g = 1375
        /\ ~deals_df[1].is_best_deal
        /\ deals_df[1].price_difference = 125
        /\ deals_df[1].savings_opportunity = 125
        /\ deals_df[2].platform = Platforms[2]
        /\ deals_df[2].price_per_100g = 1250
        /\ deals_df[2].is_best_deal
        /\ deals_df[2].price_difference = 0
        /\ deals_df[2].savings_opportunity = 0
        /\ deals_df[1].product_group = df_matched[1].product_group
        /\ deals_df[2].product_group = df_matched[1].product_group
        /\ \A i \in 1..Len(deals_df) : deals_df[i].platform # Platforms[3]

\* identify_best_deals has returned for the scenario; C is priced at 13.33
\* per 100 g
C15_Witness ==
    /\ AfterDeals
    /\ ScenarioMatched
    /\ df_matched[3].price_per_100g = 1333
    /\ Len(deals_df) = 2

\* the DealRecords of the group of the g-th row of the comparison table
RowsOfRow(g) == RowsOfGroup(deals_df, GroupOfRow(g))

\* the platforms that have a DealRecord in the group of the g-th row
PlatformsOfRow(g) == {deals_df[i].platform : i \in RowsOfRow(g)}

\* C21: in every row of the comparison table, is_best of a platform is true
\* only if the group of the row has DealRecords of 2 platforms or more and
\* the per_100g slot of the platform equals the lowest price_per_100g of all
\* records of the group; in the row of a group of fewer than 2 platforms the
\* price slots of its platform are populated and every is_best is false.
C21_BestOnlyAtGroupMinimum ==
    pc = "done" =>
        \A g \in 1..Len(comparison_table) :
            LET row == comparison_table[g]
            IN  /\ \A p \in PlatformNames :
                      row.slots[p].is_best =>
                          /\ Cardinality(PlatformsOfRow(g)) >= 2
                          /\ row.slots[p].per_100g =
                                 Min({deals_df[i].price_per_100g : i \in RowsOfRow(g)})
                /\ Cardinality(PlatformsOfRow(g)) < 2 =>
                      /\ \A p \in PlatformsOfRow(g) :
                            /\ row.slots[p].price # NoneVal
                            /\ row.slots[p].per_100g # NoneVal
                      /\ \A p \in PlatformNames : ~row.slots[p].is_best

\* the row of a group whose DealRecords are two records of one platform (a
\* third record, of another platform, had price_per_100g = 0): the slot of
\* the platform is populated and nothing is marked best
C21_Witness ==
    /\ pc = "done"
    /\ \E g \in 1..Len(comparison_table) :
          /\ Cardinality(PlatformsOfRow(g)) = 1
          /\ Cardinality(RowsOfRow(g)) = 2
          /\ ~comparison_table[g].is_comparable
          /\ \E p \in PlatformsOfRow(g) :
                comparison_table[g].slots[p].per_100g = 1250
          /\ \A p \in PlatformNames : ~comparison_table[g].slots[p].is_best

\* C25: every group that has DealRecords has DealRecords of 2 platforms or
\* more, also when records of the group have price_per_100g = 0.
C25_DealGroupsHaveTwoPlatforms ==
    \A g \in GroupIdsOf(deals_df) :
        Cardinality(PlatformsOfGroup(deals_df, g)) >= 2

\* C26: the deals table and the comparison table agree on the best deal: in
\* the row of every group with DealRecords of 2 platforms or more, is_best of
\* a platform is true exactly when a DealRecord of that platform in the
\* group has is_best_deal true, also when two platforms are tied at the
\* lowest price_per_100g.
C26_TablesAgreeOnBest ==
    pc = "done" =>
        \A g \in 1..Len(comparison_table) :
            Cardinality(PlatformsOfRow(g)) >= 2 =>
                \A p \in PlatformNames :
                    comparison_table[g].slots[p].is_best <=>
                        \E i \in RowsOfRow(g) :
                            /\ deals_df[i].platform = p
                            /\ deals_df[i].is_best_deal

\* the platform slots of a row that hold a price
PricedSlots(row) == {p \in DOMAIN row.slots : row.slots[p].price # NoneVal}

\* C27: for every table of DealRecords, whatever platform names occur in
\* it, create_comparison_table returns, and in each row platforms_available
\* is the number of platform slots that hold a price and is_comparable is
\* true exactly when platforms_available >= 2.
C27_TableCompletes ==
    /\ [][pc = "table" => pc' = "done"]_vars
    /\ [](pc = "done" =>
            \A g \in 1..Len(comparison_table) :
                /\ comparison_table[g].platforms_available =
                      Cardinality(PricedSlots(comparison_table[g]))
                /\ comparison_table[g].is_comparable <=>
                      comparison_table[g].platforms_available >= 2)

\* the values of a column that occur most often among the DealRecords of the
\* group of the g-th row
TiedValues(g, c) ==
    LET vals     == {deals_df[i][c] : i \in RowsOfRow(g)}
        Count(v) == Cardinality({i \in RowsOfRow(g) : deals_df[i][c] = v})
    IN  {v \in vals : \A w \in vals : Count(w) <= Count(v)}

\* of those values, the one that occurs first in the row order of the group
FirstTied(g, c) ==
    deals_df[Min({i \in RowsOfRow(g) : deals_df[i][c] \in TiedValues(g, c)})][c]

----------------------------------------------------------------------------
(***************************************************************************)
(* Properties of the matcher (SpecCatalogue).                              *)
(***************************************************************************)
\* fuzzy_match_products has returned
AfterMatch == pc \in {"deals", "insights", "table", "done", "raised"}

\* the distinct product keys of a table, in order of first appearance
KeysOf(t) == Unique(Column(t, "product_key"))

InSeq(x, s) == \E i \in 1..Len(s) : s[i] = x

\* C11: after fuzzy_match_products every record has a group id, for any
\* number of distinct keys and any scores: every key is in the match-set
\* computed for it (the best 10 candidates at or above the threshold), and
\* so in the mapping from keys to groups.
C11_EveryRecordGrouped ==
    AfterMatch =>
        \A i \in 1..Len(df_matched) :
            /\ InSeq(df_matched[i].product_key,
                     HighMatches(score, df_matched[i].product_key,
                                 KeysOf(df_matched)))
            /\ df_matched[i].product_group # NaN

\* the lexicographically smallest key of a set
Smallest(S) == CHOOSE k \in S : \A j \in S : ~SeqLess(j, k)

\* The grouping the matcher is to produce for the distinct keys (in
\* discovery order) under the scores sc:
\*   pos    the position of a key among the distinct keys
\*   ms     the match-set of a key: of its cap best candidates (a higher
\*          score first, then the key discovered earlier), those at or above
\*          the threshold
\*   ident  the group identifier of the match-set of a key
\*   idents the identifiers
\*   first  the position of the first key whose match-set produced the
\*          identifier
\*   id     the ids 0, 1, 2, ... in the order the identifiers are first
\*          produced
\*   acc    the match-sets accumulated under an identifier
GroupingWith(sc, keys, cap) ==
    LET keyset == {keys[i] : i \in 1..Len(keys)}
        pos    == [k \in keyset |-> CHOOSE i \in 1..Len(keys) : keys[i] = k]
        ms     == [K \in keyset |->
                      {k \in keyset :
                          /\ Ratio(sc, K, k) >= Threshold
                          /\ Cardinality(
                                {j \in keyset :
                                    \/ Ratio(sc, K, j) > Ratio(sc, K, k)
                                    \/ /\ Ratio(sc, K, j) = Ratio(sc, K, k)
                                       /\ pos[j] < pos[k]}) < cap}]
        done   == {K \in keyset : ms[K] # {}}
        ident  == [K \in done |-> Smallest(ms[K])]
        idents == {ident[K] : K \in done}
        first  == [g \in idents |->
                      Min({pos[K] : K \in {J \in done : ident[J] = g}})]
        id     == [g \in idents |->
                      Cardinality({h \in idents : first[h] < first[g]})]
        acc    == [g \in idents |->
                      UNION {ms[K] : K \in {J \in done : ident[J] = g}}]
    IN  [pos |-> pos, ms |-> ms, ident |-> ident, idents |-> idents,
         first |-> first, id |-> id, acc |-> acc]

\* the grouping under the cap of 10 candidates
Grouping(sc, keys) == GroupingWith(sc, keys, ExtractLimit)

\* C17: the identifier of a match-set is its lexicographically smallest
\* key, the identifiers get the ids 0, 1, 2, ... in the order in which they
\* are first produced over the distinct keys in discovery order, and every
\* record's group id is the id of an identifier whose accumulated
\* match-sets contain the record's key.
C17_GroupIdOfAnIdentifier ==
    AfterMatch =>
        LET G == Grouping(score, KeysOf(df_matched))
        IN  \A i \in 1..Len(df_matched) :
                \E g \in G.idents :
                    /\ df_matched[i].product_group = G.id[g]
                    /\ df_matched[i].product_key \in G.acc[g]

\* the keys whose match-set contains the key X
Containing(G, X) == {K \in DOMAIN G.ident : X \in G.ms[K]}

\* X is in the match-sets of several keys with different identifiers
Overlapping(G, X) ==
    \E K, J \in Containing(G, X) : G.ident[K] # G.ident[J]

\* of the keys whose match-set contains X, the one processed last
LastProcessed(G, X) ==
    CHOOSE K \in Containing(G, X) :
        \A J \in Containing(G, X) : G.pos[J] <= G.pos[K]

\* of the identifiers of the match-sets that contain X, the one whose group
\* was created last
LastCreated(G, X) ==
    CHOOSE g \in {G.ident[K] : K \in Containing(G, X)} :
        \A K \in Containing(G, X) : G.first[G.ident[K]] <= G.first[g]

\* C18 as stated: a key in the match-sets of several keys with different
\* identifiers gets the id of the identifier of the match-set processed
\* last, also when the group of that identifier was created earlier than
\* the group of another match-set that contains the key.
C18_LastProcessedWins ==
    AfterMatch =>
        LET G == Grouping(score, KeysOf(df_matched))
        IN  \A i \in 1..Len(df_matched) :
                Overlapping(G, df_matched[i].product_key) =>
                    df_matched[i].product_group =
                        G.id[G.ident[LastProcessed(G, df_matched[i].product_key)]]

\* C18 as amended: a key in the match-sets of several keys with different
\* identifiers gets the id of the identifier whose group was created last,
\* among the identifiers of the match-sets that contain the key.
C18_LastCreatedWins ==
    AfterMatch =>
        LET G == Grouping(score, KeysOf(df_matched))
        IN  \A i \in 1..Len(df_matched) :
                Overlapping(G, df_matched[i].product_key) =>
                    df_matched[i].product_group =
                        G.id[LastCreated(G, df_matched[i].product_key)]

\* a key in two match-sets, the one processed last under an identifier
\* created first: the key has the id of the other identifier
C18_Witness ==
    /\ AfterMatch
    /\ LET G == Grouping(score, KeysOf(df_matched))
       IN  \E i \in 1..Len(df_matched) :
               LET X == df_matched[i].product_key
               IN  /\ Overlapping(G, X)
                   /\ G.ident[LastProcessed(G, X)] # LastCreated(G, X)
                   /\ df_matched[i].product_group = G.id[LastCreated(G, X)]
                   /\ df_matched[i].product_group = 1

\* the group id of the key X in a grouping: the id of the identifier
\* created last among those of the match-sets that contain X, NaN for a key
\* in no match-set
GroupIdIn(G, X) ==
    IF Containing(G, X) = {} THEN NaN ELSE G.id[LastCreated(G, X)]

\* the keys that score at or above the threshold against K, K included
Similar(K, keys) ==
    {i \in 1..Len(keys) : Ratio(score, K, keys[i]) >= Threshold}

\* no key has more than 10 keys at or above the threshold
WithinCap(keys) ==
    \A i \in 1..Len(keys) : Cardinality(Similar(keys[i], keys)) <= ExtractLimit

\* C19: when no distinct key has more than 10 keys (itself included) at or
\* above the threshold, every record has the group id that the algorithm
\* gives it without the cap on the candidates, and a candidate that scores
\* exactly the threshold is in the match-set.
C19_CapChangesNothing ==
    (AfterMatch /\ WithinCap(KeysOf(df_matched))) =>
        LET keys == KeysOf(df_matched)
            G    == GroupingWith(score, keys, Len(keys) + 1)
        IN  /\ \A i \in 1..Len(df_matched) :
                  df_matched[i].product_group =
                      GroupIdIn(G, df_matched[i].product_key)
            /\ \A i \in 1..Len(keys) :
                  LET high_matches == HighMatches(score, keys[i], keys)
                  IN  \A j \in 1..Len(keys) :
                          Ratio(score, keys[i], keys[j]) = Threshold =>
                              InSeq(keys[j], high_matches)

\* more than 10 distinct keys, of which the last key has exactly 10 keys at
\* the threshold, itself included, all in its group
C19_Witness ==
    /\ AfterMatch
    /\ LET keys == KeysOf(df_matched)
       IN  /\ Len(keys) > ExtractLimit
           /\ WithinCap(keys)
           /\ Cardinality(Similar(keys[Len(keys)], keys)) = ExtractLimit
           /\ Ratio(score, keys[Len(keys)], keys[Len(keys) - 1]) = Threshold
           /\ \A i \in 1..Len(df_matched) :
                 df_matched[i].product_key \in
                     {keys[k] : k \in Similar(keys[Len(keys)], keys)}
                 => df_matched[i].product_group =
                        df_matched[Len(df_matched)].product_group

\* two keys score at or above the threshold
SimilarKeys(a, b) == Ratio(score, a, b) >= Threshold

\* similarity at or above the threshold is an equivalence relation on the
\* keys: it is reflexive and symmetric as Ratio is, and transitive
EquivalenceOn(keys) ==
    \A sim \in {[i \in 1..Len(keys) |->
                    {j \in 1..Len(keys) : SimilarKeys(keys[i], keys[j])}]} :
        \A i \in 1..Len(keys) : \A j \in sim[i] : sim[j] = sim[i]

\* similarity is an equivalence relation on the distinct keys of the table
\* and no class has more than 10 keys
ClassesWithinCap(t) ==
    \A keys \in {KeysOf(t)} : EquivalenceOn(keys) /\ WithinCap(keys)

\* other orders of the rows of a table of n rows: the rows taken forwards
\* from the second row and from the middle row on, and backwards from the
\* last row, the row before it and the middle row on
Reorderings(n) ==
    {[i \in 1..n |-> ((i + k - 1) % n) + 1] : k \in {1, n \div 2}}
      \cup {[i \in 1..n |-> n - ((i + k - 1) % n)] : k \in {0, 1, n \div 2}}

Reordered(t, f) == [i \in 1..Len(t) |-> t[f[i]]]

\* C28: when similarity at or above the threshold is an equivalence
\* relation on the distinct keys and no class has more than 10 keys, two
\* records have the same group id exactly when their keys are similar, and
\* the matcher run on the records in another order puts the same records
\* together.
C28_PartitionBySimilarity ==
    (pc = "deals" /\ ClassesWithinCap(df_matched)) =>
        /\ \A i, j \in 1..Len(df_matched) :
              (df_matched[i].product_group = df_matched[j].product_group)
                <=> SimilarKeys(df_matched[i].product_key,
                                df_matched[j].product_key)
        /\ \A f \in Reorderings(Len(df_matched)) :
              \A m \in {fuzzy_match_products(score, Reordered(df_matched, f))} :
                  \A i, j \in 1..Len(m) :
                      (m[i].product_group = m[j].product_group)
                        <=> (df_matched[f[i]].product_group
                               = df_matched[f[j]].product_group)

\* more than 10 distinct keys, 10 of them in one class at the threshold and
\* a key outside it; taken backwards, the records get other group ids and
\* the same groups
C28_Witness ==
    /\ pc = "deals"
    /\ ClassesWithinCap(df_matched)
    /\ \E keys \in {KeysOf(df_matched)} :
           /\ Len(keys) > ExtractLimit
           /\ \E i, j \in 1..Len(keys) :
                 /\ Cardinality(Similar(keys[i], keys)) = ExtractLimit
                 /\ i # j
                 /\ Ratio(score, keys[i], keys[j]) = Threshold
           /\ \E f \in Reorderings(Len(df_matched)) :
                 \E m \in {fuzzy_match_products(score, Reordered(df_matched, f))} :
                     \E i \in 1..Len(m) :
                         m[i].product_group # df_matched[f[i]].product_group

\* the keys K that connect the key X to the group with the id n: X scores at
\* or above the threshold against K, X is in the match-set of K, and the
\* smallest key of that match-set is the identifier of the group
Connecting(G, X, n) ==
    {K \in Containing(G, X) :
        /\ Ratio(score, X, K) >= Threshold
        /\ G.ident[K] = Smallest(G.ms[K])
        /\ G.id[G.ident[K]] = n}

\* C29: every record that has a group id is connected to its group by a
\* distinct key K: the record's key scores at or above the threshold
\* against K, and the identifier of the group is the smallest key of the
\* match-set of K; and records with equal product_key have the same group
\* id.
C29_ConnectedToGroup ==
    AfterMatch =>
        \A G \in {Grouping(score, KeysOf(df_matched))} :
            \A i \in 1..Len(df_matched) :
                /\ df_matched[i].product_group # NaN =>
                      Connecting(G, df_matched[i].product_key,
                                 df_matched[i].product_group) # {}
                /\ \A j \in 1..Len(df_matched) :
                      df_matched[i].product_key = df_matched[j].product_key
                        => df_matched[i].product_group = df_matched[j].product_group

\* a record in a group whose identifier its key is not similar to: the key
\* is in the match-set of a key between the two
C29_Witness ==
    /\ AfterMatch
    /\ \E G \in {Grouping(score, KeysOf(df_matched))} :
          \E i \in 1..Len(df_matched) :
              \E K \in Connecting(G, df_matched[i].product_key,
                                  df_matched[i].product_group) :
                  /\ Ratio(score, df_matched[i].product_key, G.ident[K]) < Threshold
                  /\ K # df_matched[i].product_key
                  /\ K # G.ident[K]

\* the group ids the records carry
CarriedIds(t) == {t[i].product_group : i \in 1..Len(t)}

\* len(product_groups), the number of groups the matcher created and
\* reports
CreatedGroups(t) == Len(ProductGroups(score, t))

\* C30 (as stated): the group ids the records carry are exactly 0, ...,
\* n - 1, n the number of groups the matcher created: no created group ends
\* with zero records.
C30_EveryCreatedGroupCarried ==
    AfterMatch =>
        \A n \in {CreatedGroups(df_matched)} :
            CarriedIds(df_matched) = 0..(n - 1)

\* C30 (amended): the group ids the records carry are among 0, ..., n - 1
\* and the id n - 1 of the group created last is one of them; the id of an
\* earlier group is carried by no record when every key of its list is
\* also in the list of a later group.
C30_CarriedIdsWithinCreated ==
    AfterMatch =>
        \A product_groups \in {ProductGroups(score, df_matched)} :
            LET n   == Len(product_groups)
                ids == CarriedIds(df_matched) \ {NaN}
            IN  /\ ids \subseteq 0..(n - 1)
                /\ n > 0 => (n - 1) \in ids
                /\ \A g \in 1..n :
                      (g - 1) \notin ids <=>
                          \A j \in 1..Len(product_groups[g].keys) :
                              \E h \in (g + 1)..n :
                                  InSeq(product_groups[g].keys[j],
                                        product_groups[h].keys)

\* a created group that ends with no record: both of its keys went to the
\* group created after it
C30_Witness ==
    /\ AfterMatch
    /\ CreatedGroups(df_matched) = 2
    /\ CarriedIds(df_matched) = {1}

----------------------------------------------------------------------------
(***************************************************************************)
(* Properties of the scraping session (SpecScrape).                        *)
(***************************************************************************)
\* the await of the gather has returned
AfterGather == mpc \in {"save", "load", "convert", "returned"}

\* the scraping task of the platform failed with an exception
TaskFailed(p) == tasks[p].raised # "no"

\* C13: whichever of the three scraping tasks fail with an exception, no
\* exception leaves main, the entry of a failed platform is the empty list,
\* the entry of every other platform holds the products its scraper
\* extracted, and main finishes.
C13_FailuresIsolated ==
    /\ [](mpc # "raised")
    /\ [](AfterGather =>
            \A p \in PlatformNames :
                all_platforms_data[p] =
                    IF TaskFailed(p) THEN <<>> ELSE tasks[p].data)
    /\ <>(mpc = "returned")

\* main has returned; one scraper raised in its constructor, one raised
\* after it had extracted a product, and the third returned its product
C13_Witness ==
    /\ mpc = "returned"
    /\ \E p, q, r \in PlatformNames :
          /\ tasks[p].raised = "constructor"
          /\ tasks[q].raised = "scraper"
          /\ tasks[q].data # <<>>
          /\ all_platforms_data[q] = <<>>
          /\ tasks[r].raised = "no"
          /\ all_platforms_data[r] # <<>>

\* the combined structure has the keys convert_to_dataframe reads
WellFormed(cd) ==
    /\ "platforms" \in DOMAIN cd
    /\ "scraping_session" \in DOMAIN cd
    /\ "scraping_timestamp" \in DOMAIN cd.scraping_session
    /\ \A p \in PlatformNames : "products" \in DOMAIN cd.platforms[p]

\* C14: when the combined structure handed to convert_to_dataframe lacks a
\* key (the platforms map, the products of a platform, the session), the
\* caller gets an explicit failure, not a table returned as if the
\* conversion had succeeded.
C14_InvalidInputFails ==
    ( /\ mpc = "returned"
      /\ combined_data # NoData
      /\ ~WellFormed(combined_data) ) => scraped_df.exc

\* every scraping task has finished
AllFinished == \A p \in PlatformNames : tasks[p].pos = "done"

\* the combined file of this session has been written and loaded
CombinedLoaded == combined_file = "saved" /\ mpc \in {"convert", "returned"}

\* C24: whatever the interleaving and the completion order of the three
\* scraping tasks, the files of the platforms and the combined data are
\* produced only when all three tasks have finished, and the combined
\* data, the combined file and the file of each platform hold under each
\* platform name exactly the records the task of that platform returned.
C24_MergedAfterAllByOwnTask ==
    /\ (mpc # "gather" \/ all_platforms_data # <<>> \/ platform_files # <<>>)
          => AllFinished
    /\ AfterGather =>
          \A p \in PlatformNames :
              /\ all_platforms_data[p] = tasks[p].result.val
              /\ platform_files[p] # NoFile =>
                    /\ platform_files[p].platform = p
                    /\ platform_files[p].products = tasks[p].result.val
              /\ CombinedLoaded =>
                    combined_data.platforms[p].products = tasks[p].result.val

\* main has returned; the task of the last platform finished first and the
\* task of the first platform last, the three returned different records,
\* and a file was written for every platform
C24_Witness ==
    /\ mpc = "returned"
    /\ CombinedLoaded
    /\ tasks[Platforms[3]].finished = 1
    /\ tasks[Platforms[1]].finished = 3
    /\ tasks[Platforms[1]].result.val # <<>>
    /\ tasks[Platforms[3]].result.val # <<>>
    /\ tasks[Platforms[1]].result.val # tasks[Platforms[3]].result.val
    /\ tasks[Platforms[2]].result.val = <<>>
    /\ \A p \in PlatformNames : platform_files[p] # NoFile
    /\ combined_data.platforms[Platforms[1]].products
          = tasks[Platforms[1]].result.val

----------------------------------------------------------------------------
(***************************************************************************)
(* Properties of the text parsers (SpecText).                              *)
(***************************************************************************)
\* the text as _normalize_weight reads it
Cleaned(s) == Strip(RemoveChar(Lower(s), ","))

\* the text is one number followed by the unit kg, as in "1 kg"
IsKgText(s) ==
    LET t == Cleaned(s)
        n == RunLen(t, 1, NumChars)
    IN  /\ n > 0
        /\ ~Float(SubSeq(t, 1, n)).exc
        /\ LStrip(SubSeq(t, n + 1, Len(t))) = <<"k", "g">>

\* C7: for a weight text whose unit is kg, _normalize_weight returns the
\* number times 1000 ("1 kg" gives 1000.0).
C7_KgGivesGrams ==
    (tpc = "weight" /\ text # None /\ IsKgText(text)) =>
        LET t == Cleaned(text)
        IN  NumEq(out, Round2(Mul(Float(SubSeq(t, 1, RunLen(t, 1, NumChars))),
                                  Num(1000, 0))))

\* the text has a number, an x and a number in a row, blanks between them
\* allowed ("2 x 200")
HasTimesPattern(t) ==
    \E i \in 1..Len(t) :
        /\ t[i] = "x"
        /\ \E a \in 1..(i - 1) :
              /\ t[a] \in NumChars
              /\ \A k \in (a + 1)..(i - 1) : t[k] \in Whitespace
        /\ \E b \in (i + 1)..Len(t) :
              /\ t[b] \in NumChars
              /\ \A k \in (i + 1)..(b - 1) : t[k] \in Whitespace

\* C8: _normalize_weight multiplies the first two numbers only when the text
\* has a pattern 'N x M'; for every other text, one with an x elsewhere
\* included, the result is the last number.  (Texts whose numbers all parse
\* and that do not name the unit kg.)
C8_TimesOnlyOnPattern ==
    (tpc = "weight" /\ text # None) =>
        LET t    == Cleaned(text)
            nums == FindAll(t, NumChars)
        IN  ( /\ nums # <<>>
              /\ \A i \in 1..Len(nums) : ~Float(nums[i]).exc
              /\ ~Contains(t, <<"k", "g">>) ) =>
                NumEq(out, Round2(IF HasTimesPattern(t)
                                  THEN Mul(Float(nums[1]), Float(nums[2]))
                                  ELSE Float(nums[Len(nums)])))

\* a currency sign at position i starts a currency-prefixed numeral: blanks,
\* then a character of a numeral
NumeralAfterRupee(s, i) ==
    /\ s[i] = Rupee
    /\ \E j \in (i + 1)..Len(s) :
          /\ s[j] \in PriceChars
          /\ \A k \in (i + 1)..(j - 1) : s[k] \in Whitespace

\* the numeral that the currency sign at position i prefixes
NumeralAt(s, i) ==
    LET j == CHOOSE k \in (i + 1)..Len(s) :
                 /\ s[k] \in PriceChars
                 /\ \A l \in (i + 1)..(k - 1) : s[l] \in Whitespace
        e == CHOOSE k \in j..Len(s) :
                 /\ \A l \in j..k : s[l] \in PriceChars
                 /\ k = Len(s) \/ s[k + 1] \notin PriceChars
    IN  SubSeq(s, j, e)

\* C9: _clean_price returns the value of the first currency-prefixed numeral,
\* its thousands separators removed, whatever numerals follow it, and 0.0
\* for a text without a currency-prefixed numeral.  ("R1,2" gives 12.)
C9_FirstCurrencyNumeral ==
    (tpc = "price" /\ text # None) =>
        LET starts == {i \in 1..Len(text) : NumeralAfterRupee(text, i)}
        IN  /\ starts = {} => out = Zero
            /\ starts # {} =>
                  LET v == Float(RemoveChar(NumeralAt(text, Min(starts)), ","))
                  IN  ~v.exc => NumEq(out, v)
            /\ text = <<Rupee, "1", ",", "2">> => out = Num(12, 0)

\* two currency-prefixed numerals of different values: the first is returned
C9_Witness ==
    /\ tpc = "price"
    /\ text # None
    /\ \E i, j \in 1..Len(text) :
          /\ i < j
          /\ NumeralAfterRupee(text, i)
          /\ NumeralAfterRupee(text, j)
          /\ NumEq(out, Float(NumeralAt(text, i)))
          /\ ~Float(NumeralAt(text, j)).exc
          /\ ~NumEq(out, Float(NumeralAt(text, j)))

\* the text has no digit
NoDigit(s) == \A i \in 1..Len(s) : s[i] \notin Digits

\* C10: for every text and for a missing value, _normalize_weight and
\* _clean_price return a number and raise nothing; they return 0.0 for a
\* missing value, for a text without a digit, for a weight text none of
\* whose numerals is a number ('.', '1..1') and for a price text whose first
\* currency-prefixed numeral is not a number.
C10_ParseFailureGivesZero ==
    tpc \in {"weight", "price"} =>
        /\ ~out.exc
        /\ text = None => out = Zero
        /\ (text # None /\ NoDigit(text)) => out = Zero
        /\ (tpc = "weight" /\ text # None) =>
              LET nums == FindAll(Cleaned(text), NumChars)
              IN  (\A i \in 1..Len(nums) : Float(nums[i]).exc) => out = Zero
        /\ (tpc = "price" /\ text # None) =>
              LET starts == {i \in 1..Len(text) : NumeralAfterRupee(text, i)}
              IN  ( /\ starts # {}
                    /\ Float(RemoveChar(NumeralAt(text, Min(starts)), ",")).exc )
                      => out = Zero

\* a weight text with digits whose numeral has two dots: float() raised
\* inside the parser, which returned 0.0
C10_Witness ==
    /\ tpc = "weight"
    /\ text # None
    /\ ~NoDigit(text)
    /\ NormalizeWeightTry(text).exc
    /\ out = Zero

----------------------------------------------------------------------------
(***************************************************************************)
(* Properties of _standardize_brand (SpecBrandText).                       *)
(***************************************************************************)
\* the brand upper-cased and trimmed is a key of the alias table
IsAlias(b) == \E e \in 1..Len(BrandMappings) : BrandMappings[e][1] = b

\* the canonical form the alias table gives
Canonical(b) ==
    BrandMappings[CHOOSE e \in 1..Len(BrandMappings) : BrandMappings[e][1] = b][2]

\* the brand is absent, empty, whitespace only or "Unknown"
NoBrand(t) == t = None \/ t = UnknownText \/ Strip(t) = <<>>

\* C23: _standardize_brand returns "Unknown" for a brand that is absent,
\* empty, whitespace only or "Unknown"; for any other brand the canonical
\* form of the alias table when the upper-cased trimmed brand is an entry
\* of the table (BRITTANIA gives Britannia), and the title-cased value
\* otherwise; the result is never the empty string.
C23_BrandStandardized ==
    tpc = "brand" =>
        /\ NoBrand(text) => out = UnknownText
        /\ (~NoBrand(text) /\ IsAlias(Strip(UpperText(text)))) =>
              out = Canonical(Strip(UpperText(text)))
        /\ (~NoBrand(text) /\ ~IsAlias(Strip(UpperText(text)))) =>
              out = TitleText(Strip(UpperText(text)))
        /\ text = <<"B", "R", "I", "T", "T", "A", "N", "I", "A">> =>
              out = <<"B", "r", "i", "t", "a", "n", "n", "i", "a">>
        /\ out # <<>>

====
